---- MODULE Spec2Model ----
(***************************************************************************)
(* Food health rating pipeline of food-health-rating-app/app.py:           *)
(* IngredientNormalizer, HealthScorer and the objects they hand back.      *)
(*                                                                         *)
(* Representation.                                                         *)
(*  - A Python str is a sequence of one-character strings, so that split,  *)
(*    strip, lower and the substring test `term in ingredient` are         *)
(*    computed character by character.  None is the value None.            *)
(*  - A Python float is an integer count of thousandths (6.5 is 6500).     *)
(*    Every per_100g value drawn below is a multiple of 0.25, for which    *)
(*    each product and sum of _score_nutrients is an exact multiple of     *)
(*    0.001.                                                               *)
(*  - A Python list is an object on `heap`, named by its index, so that    *)
(*    two references to one list are distinguishable from two equal lists. *)
(***************************************************************************)
EXTENDS Integers, Sequences, FiniteSets, TLC

VARIABLES
    heap,        \* the list objects that outlive a call: heap[id] is a list's content
    scorers,     \* scorers[s] is the id of HealthScorer s's self.sources list
    calls,       \* the score_product calls made so far, oldest first
    touched,     \* the <<call, field>> pairs through which a caller has modified a returned list
    norm,        \* the normalize_ingredient_list calls made: <<>> or one [raw, out]
    classified,  \* the classify_ingredients calls made: <<>> or one [ingredients, out]
    panels,      \* the normalize_nutrients calls made: <<>> or one [raw_nutrients, serving_size_g, out]
    threads,     \* threads[t]: where thread t is in its score_product call, and on which product
    frames,      \* frames[f]: the local variables of the score_product call that runs in frame f
    table,       \* the rows of the products table
    clock,       \* the reading of datetime.datetime.now()
    saved,       \* the save_product calls made so far, oldest first
    fetched,     \* the get_product_by_barcode calls made: <<>> or one [barcode, out]
    lookups      \* the barcode_lookup_form submissions: <<>> or one [barcode, resp, out]

threadvars == <<threads, frames>>

dbvars == <<table, clock, saved, fetched>>

formvars == <<lookups>>

vars == <<heap, scorers, calls, touched, norm, classified, panels, threads, frames,
          table, clock, saved, fetched, lookups>>

\* None, told apart from every str (whose elements are single characters)
None == <<"None">>

\* how a call ends: it returns a value, or an exception propagates
Return(v) == [raised |-> "", value |-> v]
Raise(e) == [raised |-> e, value |-> <<>>]

(***************************************************************************)
(* Bounds of the model.                                                    *)
(***************************************************************************)
MaxRawLen == 5
MaxIngredients == 4
MaxCalls == 2
MaxTouches == 1
MaxEntries == 2
MaxThreads == 2
MaxSaves == 3

(***************************************************************************)
(* str                                                                     *)
(***************************************************************************)
\* the characters str.lower() changes, each with its lower-case form
LowerMap ==
    "A" :> "a" @@ "B" :> "b" @@ "C" :> "c" @@ "D" :> "d" @@ "E" :> "e" @@ "F" :> "f" @@
    "G" :> "g" @@ "H" :> "h" @@ "I" :> "i" @@ "J" :> "j" @@ "K" :> "k" @@ "L" :> "l" @@
    "M" :> "m" @@ "N" :> "n" @@ "O" :> "o" @@ "P" :> "p" @@ "Q" :> "q" @@ "R" :> "r" @@
    "S" :> "s" @@ "T" :> "t" @@ "U" :> "u" @@ "V" :> "v" @@ "W" :> "w" @@ "X" :> "x" @@
    "Y" :> "y" @@ "Z" :> "z"

\* str.lower() on one character
LowerChar(c) == IF c \in DOMAIN LowerMap THEN LowerMap[c] ELSE c

\* str.lower()
RECURSIVE Lower(_)
Lower(s) == IF s = <<>> THEN <<>> ELSE <<LowerChar(Head(s))>> \o Lower(Tail(s))

\* the characters \s and str.strip() treat as whitespace
IsSpace(c) == c \in {" ", "\t", "\n", "\r"}

\* str.strip()
Strip(s) ==
    LET keep == {i \in 1..Len(s) : ~IsSpace(s[i])}
    IN  IF keep = {} THEN <<>>
        ELSE SubSeq(s, CHOOSE i \in keep : \A j \in keep : i <= j,
                       CHOOSE i \in keep : \A j \in keep : i >= j)

\* `term in s` for two str
Contains(term, s) ==
    \E i \in 0..(Len(s) - Len(term)) :
        \A j \in 1..Len(term) : s[i + j] = term[j]

\* re.split(r'[,;]', s): the pieces between separators, empty pieces included
RECURSIVE SplitFrom(_, _, _)
SplitFrom(s, i, piece) ==
    IF i > Len(s) THEN <<piece>>
    ELSE IF s[i] \in {",", ";"}
         THEN <<piece>> \o SplitFrom(s, i + 1, <<>>)
         ELSE SplitFrom(s, i + 1, Append(piece, s[i]))

ReSplit(s) == SplitFrom(s, 1, <<>>)

\* re.sub(r'\([^)]*\)', '', s): leftmost matches, each from a '(' to the
\* first ')' after it; a '(' with no ')' after it is kept
RECURSIVE StripParensFrom(_, _)
StripParensFrom(s, i) ==
    IF i > Len(s) THEN <<>>
    ELSE IF s[i] = "(" /\ \E j \in (i + 1)..Len(s) : s[j] = ")"
         THEN StripParensFrom(s,
                  1 + CHOOSE j \in (i + 1)..Len(s) :
                          /\ s[j] = ")"
                          /\ \A k \in (i + 1)..(j - 1) : s[k] # ")")
         ELSE <<s[i]>> \o StripParensFrom(s, i + 1)

RemoveParenthetical(s) == StripParensFrom(s, 1)

\* re.sub(r'\s+', ' ', s): each maximal run of whitespace becomes one space
RECURSIVE CollapseFrom(_, _)
CollapseFrom(s, i) ==
    IF i > Len(s) THEN <<>>
    ELSE IF IsSpace(s[i])
         THEN IF i > 1 /\ IsSpace(s[i - 1])
              THEN CollapseFrom(s, i + 1)
              ELSE <<" ">> \o CollapseFrom(s, i + 1)
         ELSE <<s[i]>> \o CollapseFrom(s, i + 1)

CollapseWhitespace(s) == CollapseFrom(s, 1)

(***************************************************************************)
(* IngredientNormalizer                                                    *)
(***************************************************************************)
\* The curated term sets.  Each is written as the listing of its elements;
\* a Python set iterates in an order the build chooses, see IterOrders.
HARMFUL_ADDITIVES ==
    << <<"s","o","d","i","u","m"," ","n","i","t","r","i","t","e">>,
       <<"s","o","d","i","u","m"," ","n","i","t","r","a","t","e">>,
       <<"p","o","t","a","s","s","i","u","m"," ","n","i","t","r","i","t","e">>,
       <<"p","o","t","a","s","s","i","u","m"," ","n","i","t","r","a","t","e">>,
       <<"b","h","a">>,
       <<"b","h","t">>,
       <<"t","b","h","q">>,
       <<"p","r","o","p","y","l"," ","g","a","l","l","a","t","e">>,
       <<"a","r","t","i","f","i","c","i","a","l"," ","c","o","l","o","r","s">>,
       <<"r","e","d"," ","d","y","e"," ","4","0">>,
       <<"y","e","l","l","o","w"," ","6">>,
       <<"b","l","u","e"," ","1">>,
       <<"h","i","g","h"," ","f","r","u","c","t","o","s","e"," ","c","o","r","n"," ","s","y","r","u","p">>,
       <<"c","o","r","n"," ","s","y","r","u","p"," ","s","o","l","i","d","s">> >>

ULTRA_PROCESSED_MARKERS ==
    << <<"m","o","d","i","f","i","e","d"," ","s","t","a","r","c","h">>,
       <<"h","y","d","r","o","l","y","z","e","d"," ","p","r","o","t","e","i","n">>,
       <<"i","s","o","l","a","t","e","d"," ","p","r","o","t","e","i","n">>,
       <<"a","r","t","i","f","i","c","i","a","l"," ","f","l","a","v","o","r","s">>,
       <<"n","a","t","u","r","a","l"," ","f","l","a","v","o","r","s">>,
       <<"f","l","a","v","o","r"," ","e","n","h","a","n","c","e","r">>,
       <<"e","m","u","l","s","i","f","i","e","r">>,
       <<"s","t","a","b","i","l","i","z","e","r">>,
       <<"t","h","i","c","k","e","n","e","r">> >>

BENEFICIAL_INGREDIENTS ==
    << <<"w","h","o","l","e"," ","g","r","a","i","n">>,
       <<"w","h","o","l","e"," ","w","h","e","a","t">>,
       <<"o","a","t","s">>,
       <<"q","u","i","n","o","a">>,
       <<"b","r","o","w","n"," ","r","i","c","e">>,
       <<"f","i","b","e","r">>,
       <<"p","r","o","t","e","i","n">>,
       <<"v","i","t","a","m","i","n","s">>,
       <<"m","i","n","e","r","a","l","s">> >>

\* `not x` for a str or None argument
Falsy(x) == x = None \/ x = <<>>

\* CleanIngredient without the .strip() that follows the two re.sub
CleanUnstripped(ingredient) ==
    CollapseWhitespace(RemoveParenthetical(Strip(ingredient)))

\* one pass of the loop body of normalize_ingredient_list
CleanIngredient(ingredient) ==
    Strip(CollapseWhitespace(RemoveParenthetical(Strip(ingredient))))

RECURSIVE NormalizeLoop(_, _)
NormalizeLoop(ingredients, i) ==
    IF i > Len(ingredients) THEN <<>>
    ELSE LET ingredient == CleanIngredient(ingredients[i])
         IN  (IF ingredient # <<>> /\ Len(ingredient) > 1
              THEN <<ingredient>> ELSE <<>>)
             \o NormalizeLoop(ingredients, i + 1)

\* normalize_ingredient_list without the `if not raw_ingredients` return
normalize_unguarded(raw_ingredients) ==
    IF raw_ingredients = None THEN Raise("AttributeError")
    ELSE Return(NormalizeLoop(ReSplit(Lower(raw_ingredients)), 1))

\* raw_ingredients.lower() on None raises AttributeError
normalize_ingredient_list(raw_ingredients) ==
    IF Falsy(raw_ingredients) THEN Return(<<>>)
    ELSE IF raw_ingredients = None THEN Raise("AttributeError")
    ELSE Return(NormalizeLoop(ReSplit(Lower(raw_ingredients)), 1))

\* One iteration order of a term set.  CPython orders a set of str by hashes
\* that change from process to process, so the order is the caller's choice
\* among the listing and its reverse.
IterOrders == {"listed", "reversed"}

\* `for term in terms: if term in ingredient_lower: ...; break` with the
\* terms visited in order ord: the position (in the listing) of the term the
\* loop breaks at, 0 when it runs to its end
FirstMatch(terms, ord, ingredient_lower) ==
    LET hits == {i \in 1..Len(terms) : Contains(terms[i], ingredient_lower)}
    IN  IF hits = {} THEN 0
        ELSE IF ord = "listed" THEN CHOOSE i \in hits : \A j \in hits : i <= j
        ELSE CHOOSE i \in hits : \A j \in hits : i >= j

\* ClassifyOne recording the term that matched in place of the ingredient
ClassifyOneTerm(classification, ingredient, ord) ==
    LET ingredient_lower == Lower(ingredient)
        h == FirstMatch(HARMFUL_ADDITIVES, ord, ingredient_lower)
        u == FirstMatch(ULTRA_PROCESSED_MARKERS, ord, ingredient_lower)
        b == FirstMatch(BENEFICIAL_INGREDIENTS, ord, ingredient_lower)
    IN  IF h # 0
        THEN [classification EXCEPT !.harmful_additives = Append(@, HARMFUL_ADDITIVES[h])]
        ELSE IF u # 0
        THEN [classification EXCEPT !.ultra_processed_markers = Append(@, ULTRA_PROCESSED_MARKERS[u])]
        ELSE IF b # 0
        THEN [classification EXCEPT !.beneficial_ingredients = Append(@, BENEFICIAL_INGREDIENTS[b])]
        ELSE [classification EXCEPT !.other = Append(@, ingredient)]

\* ClassifyOne with the beneficial terms tried before the ultra-processed markers
ClassifyOneBeneficialFirst(classification, ingredient, ord) ==
    LET ingredient_lower == Lower(ingredient)
    IN  IF FirstMatch(HARMFUL_ADDITIVES, ord, ingredient_lower) # 0
        THEN [classification EXCEPT !.harmful_additives = Append(@, ingredient)]
        ELSE IF FirstMatch(BENEFICIAL_INGREDIENTS, ord, ingredient_lower) # 0
        THEN [classification EXCEPT !.beneficial_ingredients = Append(@, ingredient)]
        ELSE IF FirstMatch(ULTRA_PROCESSED_MARKERS, ord, ingredient_lower) # 0
        THEN [classification EXCEPT !.ultra_processed_markers = Append(@, ingredient)]
        ELSE [classification EXCEPT !.other = Append(@, ingredient)]

\* the body of the loop of classify_ingredients for one ingredient
ClassifyOne(classification, ingredient, ord) ==
    LET ingredient_lower == Lower(ingredient)
    IN  IF FirstMatch(HARMFUL_ADDITIVES, ord, ingredient_lower) # 0
        THEN [classification EXCEPT !.harmful_additives = Append(@, ingredient)]
        ELSE IF FirstMatch(ULTRA_PROCESSED_MARKERS, ord, ingredient_lower) # 0
        THEN [classification EXCEPT !.ultra_processed_markers = Append(@, ingredient)]
        ELSE IF FirstMatch(BENEFICIAL_INGREDIENTS, ord, ingredient_lower) # 0
        THEN [classification EXCEPT !.beneficial_ingredients = Append(@, ingredient)]
        ELSE [classification EXCEPT !.other = Append(@, ingredient)]

RECURSIVE ClassifyLoop(_, _, _, _)
ClassifyLoop(classification, ingredients, i, ord) ==
    IF i > Len(ingredients) THEN classification
    ELSE ClassifyLoop(ClassifyOne(classification, ingredients[i], ord),
                      ingredients, i + 1, ord)

classify_ingredients(ingredients, ord) ==
    ClassifyLoop([harmful_additives |-> <<>>, ultra_processed_markers |-> <<>>,
                  beneficial_ingredients |-> <<>>, other |-> <<>>],
                 ingredients, 1, ord)

(***************************************************************************)
(* float arithmetic, in thousandths                                        *)
(***************************************************************************)
Milli(n) == n * 1000

Min(a, b) == IF a <= b THEN a ELSE b
Max(a, b) == IF a >= b THEN a ELSE b

\* round(x) in place of int(x): to the nearest integer, a tie to the even one
PyRound(x) ==
    LET q == IF x >= 0 THEN x \div 1000 ELSE -((-x) \div 1000)
        r == IF x >= 0 THEN x % 1000 ELSE (-x) % 1000
        up == 2 * r > 1000 \/ (2 * r = 1000 /\ q % 2 # 0)
    IN  IF ~up THEN q ELSE IF x >= 0 THEN q + 1 ELSE q - 1

\* int(x): the fraction is dropped, towards zero
PyInt(x) == IF x >= 0 THEN x \div 1000 ELSE -((-x) \div 1000)

\* format(x, '.Nf') for x >= 0, as a count of units of size `unit`
\* thousandths; a tie goes to the even neighbour
FormatFixed(x, unit) ==
    LET q == x \div unit
        r == x % unit
    IN  IF 2 * r > unit \/ (2 * r = unit /\ q % 2 = 1) THEN q + 1 ELSE q

\* list[:3]
FirstThree(list) == SubSeq(list, 1, Min(3, Len(list)))

(***************************************************************************)
(* The nutrient keys the scorer reads                                      *)
(***************************************************************************)
dietary_fiber == <<"d","i","e","t","a","r","y","_","f","i","b","e","r">>
protein == <<"p","r","o","t","e","i","n">>
sodium == <<"s","o","d","i","u","m">>
saturated_fat == <<"s","a","t","u","r","a","t","e","d","_","f","a","t">>
total_sugars == <<"t","o","t","a","l","_","s","u","g","a","r","s">>

(***************************************************************************)
(* HealthScorer                                                            *)
(***************************************************************************)
\* self.sources as __init__ builds it
SOURCES ==
    << "FDA Nutrition Facts Label Guidelines (2016)",
       "WHO Global Strategy on Diet, Physical Activity and Health (2004)",
       "Dietary Guidelines for Americans 2020-2025",
       "European Food Safety Authority (EFSA) Scientific Opinions",
       "American Heart Association Dietary Guidelines",
       "Harvard T.H. Chan School of Public Health Nutrition Source" >>

ScoreDriver(factor, impact, score_delta, explanation, source) ==
    [factor |-> factor, impact |-> impact, score_delta |-> score_delta,
     explanation |-> explanation, source |-> source]

\* An f-string explanation: its fixed text, the number it formats and the
\* ingredient names it joins.
Explanation(text, number, names) ==
    [text |-> text, number |-> number, names |-> names]

\* what one rule adds to (score_delta, drivers, warnings)
NoEffect == [score_delta |-> 0, drivers |-> <<>>, warnings |-> <<>>]
Effect(delta, driver, warnings) ==
    [score_delta |-> delta, drivers |-> <<driver>>, warnings |-> warnings]

\* FiberRule without the `fiber >= 6` test
FiberRuleNoThreshold(nutrients) ==
    IF dietary_fiber \in DOMAIN nutrients
    THEN LET fiber == nutrients[dietary_fiber].per_100g
             delta == Min(Milli(10), (fiber * 3) \div 2)
         IN  Effect(delta,
                    ScoreDriver("High Fiber Content", "positive", delta,
                        Explanation("Contains {fiber:.1f}g fiber per 100g.",
                                    FormatFixed(Max(fiber, 0), 100), <<>>),
                        "Dietary Guidelines for Americans 2020-2025"),
                    <<>>)
    ELSE NoEffect

FiberRule(nutrients) ==
    IF dietary_fiber \in DOMAIN nutrients
    THEN LET fiber == nutrients[dietary_fiber].per_100g
         IN  IF fiber >= Milli(6)
             THEN LET delta == Min(Milli(10), (fiber * 3) \div 2)
                  IN  Effect(delta,
                             ScoreDriver("High Fiber Content", "positive", delta,
                                 Explanation("Contains {fiber:.1f}g fiber per 100g.",
                                             FormatFixed(fiber, 100), <<>>),
                                 "Dietary Guidelines for Americans 2020-2025"),
                             <<>>)
             ELSE NoEffect
    ELSE NoEffect

\* ProteinRule firing only above 12 g
ProteinRuleStrict(nutrients) ==
    IF protein \in DOMAIN nutrients
    THEN LET prot == nutrients[protein].per_100g
         IN  IF prot > Milli(12)
             THEN LET delta == Min(Milli(8), (prot * 3) \div 10)
                  IN  Effect(delta,
                             ScoreDriver("Good Protein Source", "positive", delta,
                                 Explanation("Contains {protein:.1f}g protein per 100g.",
                                             FormatFixed(prot, 100), <<>>),
                                 "FDA Nutrition Facts Label Guidelines"),
                             <<>>)
             ELSE NoEffect
    ELSE NoEffect

ProteinRule(nutrients) ==
    IF protein \in DOMAIN nutrients
    THEN LET prot == nutrients[protein].per_100g
         IN  IF prot >= Milli(12)
             THEN LET delta == Min(Milli(8), (prot * 3) \div 10)
                  IN  Effect(delta,
                             ScoreDriver("Good Protein Source", "positive", delta,
                                 Explanation("Contains {protein:.1f}g protein per 100g.",
                                             FormatFixed(prot, 100), <<>>),
                                 "FDA Nutrition Facts Label Guidelines"),
                             <<>>)
             ELSE NoEffect
    ELSE NoEffect

SodiumRule(nutrients) ==
    IF sodium \in DOMAIN nutrients
    THEN LET sodium_mg == nutrients[sodium].per_100g * 10
         IN  IF sodium_mg > Milli(600)
             THEN LET delta == -Min(Milli(15), (sodium_mg - Milli(600)) \div 100)
                  IN  Effect(delta,
                             ScoreDriver("High Sodium Content", "negative", delta,
                                 Explanation("Contains {sodium_mg:.0f}mg sodium per 100g.",
                                             FormatFixed(sodium_mg, 1000), <<>>),
                                 "American Heart Association Dietary Guidelines"),
                             <<"High sodium content may contribute to elevated blood pressure">>)
             ELSE NoEffect
    ELSE NoEffect

SaturatedFatRule(nutrients) ==
    IF saturated_fat \in DOMAIN nutrients
    THEN LET sat_fat == nutrients[saturated_fat].per_100g
         IN  IF sat_fat > Milli(5)
             THEN LET delta == -Min(Milli(12), (sat_fat * 3) \div 2)
                  IN  Effect(delta,
                             ScoreDriver("High Saturated Fat", "negative", delta,
                                 Explanation("Contains {sat_fat:.1f}g saturated fat per 100g.",
                                             FormatFixed(sat_fat, 100), <<>>),
                                 "WHO Global Strategy on Diet, Physical Activity and Health"),
                             <<>>)
             ELSE NoEffect
    ELSE NoEffect

\* SugarRule emitting a warning of its own
SugarRuleWarning(nutrients) ==
    IF total_sugars \in DOMAIN nutrients
    THEN LET sugars == nutrients[total_sugars].per_100g
         IN  IF sugars > Milli(15)
             THEN LET delta == -Min(Milli(10), sugars \div 2)
                  IN  Effect(delta,
                             ScoreDriver("High Sugar Content", "negative", delta,
                                 Explanation("Contains {sugars:.1f}g sugars per 100g.",
                                             FormatFixed(sugars, 100), <<>>),
                                 "WHO Global Strategy on Diet, Physical Activity and Health"),
                             <<"High sugar content">>)
             ELSE NoEffect
    ELSE NoEffect

SugarRule(nutrients) ==
    IF total_sugars \in DOMAIN nutrients
    THEN LET sugars == nutrients[total_sugars].per_100g
         IN  IF sugars > Milli(15)
             THEN LET delta == -Min(Milli(10), sugars \div 2)
                  IN  Effect(delta,
                             ScoreDriver("High Sugar Content", "negative", delta,
                                 Explanation("Contains {sugars:.1f}g sugars per 100g.",
                                             FormatFixed(sugars, 100), <<>>),
                                 "WHO Global Strategy on Diet, Physical Activity and Health"),
                             <<>>)
             ELSE NoEffect
    ELSE NoEffect

\* the rules' effects, accumulated in the order the rules run
RECURSIVE Accumulate(_, _)
Accumulate(effects, i) ==
    IF i > Len(effects) THEN NoEffect
    ELSE LET rest == Accumulate(effects, i + 1)
         IN  [score_delta |-> effects[i].score_delta + rest.score_delta,
              drivers |-> effects[i].drivers \o rest.drivers,
              warnings |-> effects[i].warnings \o rest.warnings]

_score_nutrients(nutrients) ==
    Accumulate(<<FiberRule(nutrients), ProteinRule(nutrients), SodiumRule(nutrients),
                 SaturatedFatRule(nutrients), SugarRule(nutrients)>>, 1)

HarmfulRule(classification) ==
    LET harmful_count == Len(classification.harmful_additives)
    IN  IF harmful_count > 0
        THEN LET delta == -Min(Milli(15), Milli(harmful_count * 5))
             IN  Effect(delta,
                        ScoreDriver("Harmful Additives Present", "negative", delta,
                            Explanation("Contains {harmful_count} potentially harmful additive(s): {names}.",
                                        harmful_count,
                                        FirstThree(classification.harmful_additives)),
                            "EFSA Scientific Opinions on Food Additives"),
                        <<"Contains additives that some studies suggest may have negative health effects">>)
        ELSE NoEffect

\* ProcessedRule firing from three markers on
ProcessedRuleFromThree(classification) ==
    LET processed_count == Len(classification.ultra_processed_markers)
    IN  IF processed_count >= 3
        THEN LET delta == -Min(Milli(8), Milli(processed_count * 2))
             IN  Effect(delta,
                        ScoreDriver("Highly Processed Food", "negative", delta,
                            Explanation("Contains {processed_count} ultra-processing markers.",
                                        processed_count, <<>>),
                            "Harvard T.H. Chan School of Public Health"),
                        <<>>)
        ELSE NoEffect

ProcessedRule(classification) ==
    LET processed_count == Len(classification.ultra_processed_markers)
    IN  IF processed_count > 3
        THEN LET delta == -Min(Milli(8), Milli(processed_count * 2))
             IN  Effect(delta,
                        ScoreDriver("Highly Processed Food", "negative", delta,
                            Explanation("Contains {processed_count} ultra-processing markers.",
                                        processed_count, <<>>),
                            "Harvard T.H. Chan School of Public Health"),
                        <<>>)
        ELSE NoEffect

\* BeneficialRule without the cap of 10
BeneficialRuleUncapped(classification) ==
    LET beneficial_count == Len(classification.beneficial_ingredients)
    IN  IF beneficial_count > 0
        THEN LET delta == Milli(beneficial_count * 3)
             IN  Effect(delta,
                        ScoreDriver("Beneficial Ingredients", "positive", delta,
                            Explanation("Contains {beneficial_count} beneficial ingredient(s): {names}.",
                                        beneficial_count,
                                        FirstThree(classification.beneficial_ingredients)),
                            "Dietary Guidelines for Americans 2020-2025"),
                        <<>>)
        ELSE NoEffect

BeneficialRule(classification) ==
    LET beneficial_count == Len(classification.beneficial_ingredients)
    IN  IF beneficial_count > 0
        THEN LET delta == Min(Milli(10), Milli(beneficial_count * 3))
             IN  Effect(delta,
                        ScoreDriver("Beneficial Ingredients", "positive", delta,
                            Explanation("Contains {beneficial_count} beneficial ingredient(s): {names}.",
                                        beneficial_count,
                                        FirstThree(classification.beneficial_ingredients)),
                            "Dietary Guidelines for Americans 2020-2025"),
                        <<>>)
        ELSE NoEffect

\* _score_ingredients with the beneficial block ahead of the ultra-processed one
_score_ingredients_reordered(ingredients, ord) ==
    LET classification == classify_ingredients(ingredients, ord)
    IN  Accumulate(<<HarmfulRule(classification), BeneficialRule(classification),
                     ProcessedRule(classification)>>, 1)

_score_ingredients(ingredients, ord) ==
    LET classification == classify_ingredients(ingredients, ord)
    IN  Accumulate(<<HarmfulRule(classification), ProcessedRule(classification),
                     BeneficialRule(classification)>>, 1)

\* `if x:` for a str, a list, a dict or None
Truthy(x) == x # None /\ x # <<>>

\* _calculate_confidence counting every barcode that is not None
_calculate_confidence_barcode_set(confidence_factors, product) ==
    LET score == (IF "nutrients" \in confidence_factors THEN 50 ELSE 0)
               + (IF "ingredients" \in confidence_factors THEN 30 ELSE 0)
               + (IF product.barcode # None THEN 10 ELSE 0)
               + (IF Truthy(product.brand) THEN 10 ELSE 0)
    IN  IF score >= 80 THEN "high"
        ELSE IF score >= 60 THEN "medium"
        ELSE "low"

_calculate_confidence(confidence_factors, product) ==
    LET score == (IF "nutrients" \in confidence_factors THEN 50 ELSE 0)
               + (IF "ingredients" \in confidence_factors THEN 30 ELSE 0)
               + (IF Truthy(product.barcode) THEN 10 ELSE 0)
               + (IF Truthy(product.brand) THEN 10 ELSE 0)
    IN  IF score >= 80 THEN "high"
        ELSE IF score >= 60 THEN "medium"
        ELSE "low"

\* Clamp without max(0, ...)
ClampAbove(x) == Min(100, x)

\* max(0, min(100, x))
Clamp(x) == Max(0, Min(100, x))

\* Band with B starting at 60
BandShifted(final_score) ==
    IF final_score >= 80 THEN "A"
    ELSE IF final_score >= 60 THEN "B"
    ELSE IF final_score >= 50 THEN "C"
    ELSE IF final_score >= 35 THEN "D"
    ELSE "E"

\* Band with every `>=` a `>`
BandExclusive(final_score) ==
    IF final_score > 80 THEN "A"
    ELSE IF final_score > 65 THEN "B"
    ELSE IF final_score > 50 THEN "C"
    ELSE IF final_score > 35 THEN "D"
    ELSE "E"

Band(final_score) ==
    IF final_score >= 80 THEN "A"
    ELSE IF final_score >= 65 THEN "B"
    ELSE IF final_score >= 50 THEN "C"
    ELSE IF final_score >= 35 THEN "D"
    ELSE "E"

\* score_product up to its return statement: the values of its locals
ScoreLocals(product, ord) ==
    LET hasNutrients == DOMAIN product.nutrients # {}
        hasIngredients == product.ingredients # <<>>
        n == IF hasNutrients THEN _score_nutrients(product.nutrients) ELSE NoEffect
        g == IF hasIngredients THEN _score_ingredients(product.ingredients, ord)
             ELSE NoEffect
        base_score == Milli(50) + n.score_delta + g.score_delta
        final_score == Clamp(PyInt(base_score))
        confidence_factors == (IF hasNutrients THEN {"nutrients"} ELSE {})
                              \cup (IF hasIngredients THEN {"ingredients"} ELSE {})
    IN  [base_score |-> base_score,
         final_score |-> final_score,
         band |-> Band(final_score),
         drivers |-> n.drivers \o g.drivers,
         warnings |-> n.warnings \o g.warnings,
         confidence |-> _calculate_confidence(confidence_factors, product)]

\* score_product returning the sources its drivers cite, in a list of its own
score_product_cited(self, product, ord) ==
    LET l == ScoreLocals(product, ord)
        drivers == Len(heap) + 1
        warnings == Len(heap) + 2
        cited == Len(heap) + 3
    IN  [heap |-> heap \o <<l.drivers, l.warnings,
                            [i \in 1..Len(l.drivers) |-> l.drivers[i].source]>>,
         product |-> product,
         returned |-> [overall_score |-> l.final_score,
                       band |-> l.band,
                       drivers |-> drivers,
                       evidence_sources |-> cited,
                       confidence |-> l.confidence,
                       warnings |-> warnings]]

\* score_product lower-casing product.ingredients in place before classifying
score_product_lowering(self, product, ord) ==
    LET l == ScoreLocals(product, ord)
        drivers == Len(heap) + 1
        warnings == Len(heap) + 2
    IN  [heap |-> heap \o <<l.drivers, l.warnings>>,
         product |-> [product EXCEPT !.ingredients =
                         [i \in 1..Len(product.ingredients) |-> Lower(product.ingredients[i])]],
         returned |-> [overall_score |-> l.final_score,
                       band |-> l.band,
                       drivers |-> drivers,
                       evidence_sources |-> scorers[self],
                       confidence |-> l.confidence,
                       warnings |-> warnings]]

\* score_product(self, product) run on the heap as it is: the heap it leaves,
\* the HealthScore it returns (each list field is the id of a list on the
\* heap) and the argument object as the call leaves it.  drivers and warnings
\* are the lists made at lines 230-231; evidence_sources is self.sources.
score_product(self, product, ord) ==
    LET l == ScoreLocals(product, ord)
        drivers == Len(heap) + 1
        warnings == Len(heap) + 2
    IN  [heap |-> heap \o <<l.drivers, l.warnings>>,
         product |-> product,
         returned |-> [overall_score |-> l.final_score,
                       band |-> l.band,
                       drivers |-> drivers,
                       evidence_sources |-> scorers[self],
                       confidence |-> l.confidence,
                       warnings |-> warnings]]

(***************************************************************************)
(* ProductData, NutrientInfo                                               *)
(***************************************************************************)
NutrientInfo(name, value, unit, per_100g) ==
    [name |-> name, value |-> value, unit |-> unit, per_100g |-> per_100g]

ProductData(barcode, name, brand, ingredients, nutrients, serving_size_g, categories) ==
    [barcode |-> barcode, name |-> name, brand |-> brand,
     ingredients |-> ingredients, nutrients |-> nutrients,
     serving_size_g |-> serving_size_g, categories |-> categories]

(***************************************************************************)
(* NutrientNormalizer                                                      *)
(***************************************************************************)
DigitMap ==
    "0" :> 0 @@ "1" :> 1 @@ "2" :> 2 @@ "3" :> 3 @@ "4" :> 4 @@
    "5" :> 5 @@ "6" :> 6 @@ "7" :> 7 @@ "8" :> 8 @@ "9" :> 9

\* \d on one character
IsDigit(c) == c \in DOMAIN DigitMap

\* str(x) for a str or None argument
Str(x) == IF x = None THEN <<"N","o","n","e">> ELSE x

\* the end of the run of digits that starts at position i of s (i - 1 when
\* s[i] is not a digit)
RECURSIVE DigitsEnd(_, _)
DigitsEnd(s, i) ==
    IF i <= Len(s) /\ IsDigit(s[i]) THEN DigitsEnd(s, i + 1) ELSE i - 1

\* re.search(r'(\d+\.?\d*)', s): group 1 of the leftmost match, <<>> when
\* there is none; the match starts at the first digit of s, takes the digits
\* that follow, then a '.' if one is next, then the digits after it
NumberMatch(s) ==
    LET digits == {i \in 1..Len(s) : IsDigit(s[i])}
    IN  IF digits = {} THEN <<>>
        ELSE LET first == CHOOSE i \in digits : \A j \in digits : i <= j
                 whole == DigitsEnd(s, first)
                 last == IF whole < Len(s) /\ s[whole + 1] = "."
                         THEN DigitsEnd(s, whole + 2)
                         ELSE whole
             IN  SubSeq(s, first, last)

\* the number a string of digits denotes
RECURSIVE DigitsValue(_)
DigitsValue(digits) ==
    IF digits = <<>> THEN 0
    ELSE 10 * DigitsValue(SubSeq(digits, 1, Len(digits) - 1)) + DigitMap[digits[Len(digits)]]

\* float(text) for a text NumberMatch returns, in thousandths (exact for up
\* to three digits after the point)
PyFloat(text) ==
    LET points == {i \in 1..Len(text) : text[i] = "."}
        point == IF points = {} THEN Len(text) + 1 ELSE CHOOSE i \in points : TRUE
        whole == SubSeq(text, 1, point - 1)
        fraction == SubSeq(SubSeq(text, point + 1, Len(text)) \o <<"0", "0", "0">>, 1, 3)
    IN  1000 * DigitsValue(whole) + DigitsValue(fraction)

\* str(n) for an int n >= 0
RECURSIVE DecimalText(_)
DecimalText(n) ==
    LET digit == CHOOSE c \in DOMAIN DigitMap : DigitMap[c] = n % 10
    IN  IF n < 10 THEN <<digit>> ELSE Append(DecimalText(n \div 10), digit)

\* the alternatives of r'(mg|g|kcal|cal)' in the order the pattern tries them
UnitTokens == << <<"m","g">>, <<"g">>, <<"k","c","a","l">>, <<"c","a","l">> >>

\* the unit names with cal reported as kcal
UnitNamesEnergy == <<"mg", "g", "kcal", "kcal">>

UnitNames == <<"mg", "g", "kcal", "cal">>

StartsAt(token, s, i) ==
    /\ i + Len(token) - 1 <= Len(s)
    /\ \A j \in 1..Len(token) : s[i + j - 1] = token[j]

\* re.search(r'(mg|g|kcal|cal)', s): the index in UnitTokens of the leftmost
\* match, at its position the first alternative that matches; 0 when there
\* is no match
UnitMatch(s) ==
    LET starts == {i \in 1..Len(s) : \E t \in 1..Len(UnitTokens) : StartsAt(UnitTokens[t], s, i)}
    IN  IF starts = {} THEN 0
        ELSE LET i == CHOOSE x \in starts : \A y \in starts : x <= y
                 alternatives == {t \in 1..Len(UnitTokens) : StartsAt(UnitTokens[t], s, i)}
             IN  CHOOSE t \in alternatives : \A u \in alternatives : t <= u

\* key.lower().replace(' ', '_') after the lower()
RECURSIVE Replace(_)
Replace(s) ==
    IF s = <<>> THEN <<>>
    ELSE <<IF Head(s) = " " THEN "_" ELSE Head(s)>> \o Replace(Tail(s))

cholesterol == <<"c","h","o","l","e","s","t","e","r","o","l">>

total_fat == <<"t","o","t","a","l","_","f","a","t">>

\* the rescaling that divides by every serving size but zero
RescaleUnguarded(value, serving_size_g) ==
    IF serving_size_g # 0 THEN (value * 100) \div serving_size_g ELSE value

\* (value / serving_size_g) * 100 if serving_size_g > 0 else value, value
\* and result in thousandths
Rescale(value, serving_size_g) ==
    IF serving_size_g > 0 THEN (value * 100) \div serving_size_g ELSE value

\* normalized[key] = info
Store(normalized, key, info) ==
    [k \in DOMAIN normalized \cup {key} |-> IF k = key THEN info ELSE normalized[k]]

\* NormalizeEntry storing a zero entry for a value without a number
NormalizeEntryMissStored(normalized, key, value_str, serving_size_g) ==
    LET value_match == NumberMatch(Str(value_str))
    IN  IF value_match = <<>>
        THEN Store(normalized, Replace(Lower(key)), NutrientInfo(key, 0, "g", 0))
        ELSE LET value == PyFloat(value_match)
                 unit_match == UnitMatch(Lower(Str(value_str)))
                 unit == IF unit_match # 0 THEN UnitNames[unit_match] ELSE "g"
                 per_100g == Rescale(value, serving_size_g)
                 convert == unit = "mg" /\ Lower(key) \notin {sodium, cholesterol}
             IN  Store(normalized, Replace(Lower(key)),
                       NutrientInfo(key, value,
                                    IF convert THEN "g" ELSE unit,
                                    IF convert THEN per_100g \div 1000 ELSE per_100g))

\* NormalizeEntry converting every milligram entry, sodium and cholesterol too
NormalizeEntryNoExemption(normalized, key, value_str, serving_size_g) ==
    LET value_match == NumberMatch(Str(value_str))
    IN  IF value_match = <<>> THEN normalized
        ELSE LET value == PyFloat(value_match)
                 unit_match == UnitMatch(Lower(Str(value_str)))
                 unit == IF unit_match # 0 THEN UnitNames[unit_match] ELSE "g"
                 per_100g == Rescale(value, serving_size_g)
                 convert == unit = "mg"
             IN  Store(normalized, Replace(Lower(key)),
                       NutrientInfo(key, value,
                                    IF convert THEN "g" ELSE unit,
                                    IF convert THEN per_100g \div 1000 ELSE per_100g))

\* the body of the loop of normalize_nutrients for one item: the map after
\* it.  With a str or None value and a numeric serving size no statement of
\* the try block raises.
NormalizeEntry(normalized, key, value_str, serving_size_g) ==
    LET value_match == NumberMatch(Str(value_str))
    IN  IF value_match = <<>> THEN normalized
        ELSE LET value == PyFloat(value_match)
                 unit_match == UnitMatch(Lower(Str(value_str)))
                 unit == IF unit_match # 0 THEN UnitNames[unit_match] ELSE "g"
                 per_100g == Rescale(value, serving_size_g)
                 convert == unit = "mg" /\ Lower(key) \notin {sodium, cholesterol}
             IN  Store(normalized, Replace(Lower(key)),
                       NutrientInfo(key, value,
                                    IF convert THEN "g" ELSE unit,
                                    IF convert THEN per_100g \div 1000 ELSE per_100g))

RECURSIVE NutrientLoop(_, _, _, _)
NutrientLoop(normalized, raw_nutrients, i, serving_size_g) ==
    IF i > Len(raw_nutrients) THEN normalized
    ELSE NutrientLoop(NormalizeEntry(normalized, raw_nutrients[i][1], raw_nutrients[i][2],
                                     serving_size_g),
                      raw_nutrients, i + 1, serving_size_g)

\* raw_nutrients is the dict's items in insertion order
normalize_nutrients(raw_nutrients, serving_size_g) ==
    Return(NutrientLoop(<<>>, raw_nutrients, 1, serving_size_g))

(***************************************************************************)
(* ProductDatabase                                                         *)
(***************************************************************************)
\* a plain dict with the given items, as against a dataclass instance with
\* the same fields
Dict(items) == [dict |-> items]

\* dataclasses.asdict on a ProductData: the instance and the NutrientInfo
\* instances in its nutrients become dicts
AsDictProduct(product) ==
    Dict([product EXCEPT !.nutrients = [k \in DOMAIN @ |-> Dict(@[k])]])

\* dataclasses.asdict on a HealthScore: the instance and the ScoreDriver
\* instances in its drivers become dicts
AsDictScore(score) ==
    Dict([score EXCEPT !.drivers = [n \in DOMAIN @ |-> Dict(@[n])]])

\* json.dumps of a dict of str, numbers, None, lists and dicts, and
\* json.loads of such a text.  The order of a dict's keys is not part of
\* the model's dicts, so sort_keys=True gives the same text.
JsonDumps(obj) == [json |-> obj]

JsonLoads(text) == text.json

\* hashlib.md5(text.encode()).hexdigest(): one digest per text
Md5(text) == [md5 |-> text]

\* save_product hashing the score along with the product
save_product_scored(table_, id, now, product, score) ==
    LET data_hash == Md5(JsonDumps(<<AsDictProduct(product), AsDictScore(score)>>))
        row == [id |-> id, barcode |-> product.barcode, name |-> product.name,
                brand |-> product.brand, data_hash |-> data_hash,
                product_data |-> JsonDumps(AsDictProduct(product)),
                health_score |-> JsonDumps(AsDictScore(score)),
                updated_at |-> now]
    IN  [table |-> {r \in table_ : r.data_hash # data_hash} \cup {row},
         returned |-> data_hash]

\* save_product on a table: INSERT OR REPLACE deletes the row that has the
\* new row's data_hash (the UNIQUE column) and inserts the new row, with
\* the next AUTOINCREMENT id and the clock's reading as updated_at
save_product(table_, id, now, product, score) ==
    LET data_hash == Md5(JsonDumps(AsDictProduct(product)))
        row == [id |-> id, barcode |-> product.barcode, name |-> product.name,
                brand |-> product.brand, data_hash |-> data_hash,
                product_data |-> JsonDumps(AsDictProduct(product)),
                health_score |-> JsonDumps(AsDictScore(score)),
                updated_at |-> now]
    IN  [table |-> {r \in table_ : r.data_hash # data_hash} \cup {row},
         returned |-> data_hash]

\* the ProductData rebuilt from a loaded product_dict: NutrientInfo
\* instances from the nutrient dicts when there are any
LoadProduct(product_dict) ==
    LET d == product_dict.dict
    IN  [d EXCEPT !.nutrients =
            IF DOMAIN @ # {}
            THEN [k \in DOMAIN @ |-> NutrientInfo(@[k].dict.name, @[k].dict.value,
                                                  @[k].dict.unit, @[k].dict.per_100g)]
            ELSE @]

\* the HealthScore rebuilt from a loaded score_dict: ScoreDriver instances
\* from the driver dicts when there are any
LoadScore(score_dict) ==
    LET d == score_dict.dict
    IN  [d EXCEPT !.drivers =
            IF @ # <<>>
            THEN [n \in DOMAIN @ |-> ScoreDriver(@[n].dict.factor, @[n].dict.impact,
                                                 @[n].dict.score_delta,
                                                 @[n].dict.explanation, @[n].dict.source)]
            ELSE @]

\* the row of a non-empty set of rows that ORDER BY updated_at ... LIMIT 1
\* yields, for DESC and for ASC
Latest(rows) == CHOOSE r \in rows : \A q \in rows : q.updated_at <= r.updated_at

Earliest(rows) == CHOOSE r \in rows : \A q \in rows : q.updated_at >= r.updated_at

\* get_product_by_barcode reading the rows oldest first
get_product_by_barcode_oldest(table_, barcode) ==
    LET rows == {r \in table_ : r.barcode # None /\ barcode # None /\ r.barcode = barcode}
    IN  IF rows = {} THEN None
        ELSE <<LoadProduct(JsonLoads(Earliest(rows).product_data)),
               LoadScore(JsonLoads(Earliest(rows).health_score))>>

\* get_product_by_barcode on a table; `barcode = ?` is never true of a NULL
get_product_by_barcode(table_, barcode) ==
    LET rows == {r \in table_ : r.barcode # None /\ barcode # None /\ r.barcode = barcode}
    IN  IF rows = {} THEN None
        ELSE <<LoadProduct(JsonLoads(Latest(rows).product_data)),
               LoadScore(JsonLoads(Latest(rows).health_score))>>

(***************************************************************************)
(* barcode_lookup_form                                                     *)
(***************************************************************************)
calories == <<"c","a","l","o","r","i","e","s">>

total_carbohydrates ==
    <<"t","o","t","a","l","_","c","a","r","b","o","h","y","d","r","a","t","e","s">>

\* the nutriments the form reads, in the order of its `if` statements: the
\* key in the response, the key in raw_nutrients, the unit the form appends
Nutriments ==
    << <<"energy-kcal_100g", calories, <<"k","c","a","l">>>>,
       <<"fat_100g", total_fat, <<"g">>>>,
       <<"saturated-fat_100g", saturated_fat, <<"g">>>>,
       <<"sodium_100g", sodium, <<"m","g">>>>,
       <<"carbohydrates_100g", total_carbohydrates, <<"g">>>>,
       <<"fiber_100g", dietary_fiber, <<"g">>>>,
       <<"sugars_100g", total_sugars, <<"g">>>>,
       <<"proteins_100g", protein, <<"g">>>> >>

\* the first position from i on of s that holds no whitespace
RECURSIVE SpacesEnd(_, _)
SpacesEnd(s, i) ==
    IF i <= Len(s) /\ IsSpace(s[i]) THEN SpacesEnd(s, i + 1) ELSE i

\* the end of group 1 of r"(\d+\.?\d*)\s*g" matched at position i of s, 0
\* when the pattern does not match there: digits, a '.' if one is next, the
\* digits after it, any whitespace, and a 'g'
GramsAt(s, i) ==
    IF ~IsDigit(s[i]) THEN 0
    ELSE LET whole == DigitsEnd(s, i)
             last == IF whole < Len(s) /\ s[whole + 1] = "."
                     THEN DigitsEnd(s, whole + 2)
                     ELSE whole
             g == SpacesEnd(s, last + 1)
         IN  IF g <= Len(s) /\ s[g] = "g" THEN last ELSE 0

\* re.search(r"(\d+\.?\d*)\s*g", s): group 1 of the leftmost match, <<>>
\* when there is none
GramsMatch(s) ==
    LET starts == {i \in 1..Len(s) : GramsAt(s, i) # 0}
    IN  IF starts = {} THEN <<>>
        ELSE LET i == CHOOSE x \in starts : \A y \in starts : x <= y
             IN  SubSeq(s, i, GramsAt(s, i))

\* f"{x}" for a number x of the response, given in thousandths: whole, or
\* with one digit after the point
NumberText(x) ==
    IF x % 1000 = 0 THEN DecimalText(x \div 1000)
    ELSE DecimalText(x \div 1000) \o <<".">> \o DecimalText((x % 1000) \div 100)

\* the serving size the form takes from the response's product, in grams
ServingSize(product) ==
    IF Falsy(product.serving_size) THEN 100
    ELSE LET match == GramsMatch(product.serving_size)
         IN  IF match # <<>> THEN PyFloat(match) \div 1000 ELSE 100

\* raw_nutrients as the form's `if` statements fill it from position i on
RECURSIVE RawNutrients(_, _)
RawNutrients(nutriments, i) ==
    IF i > Len(Nutriments) THEN <<>>
    ELSE (IF Nutriments[i][1] \in DOMAIN nutriments
          THEN << <<Nutriments[i][2],
                    NumberText(nutriments[Nutriments[i][1]]) \o Nutriments[i][3]>> >>
          ELSE <<>>)
         \o RawNutrients(nutriments, i + 1)

\* barcode_lookup_form once the button is pressed, on the table's rows and
\* the response of the Open Food Facts request: <<>> for None, else the
\* ProductData in a one-element sequence.  The table's product wins; the
\* request is made only without one.
barcode_lookup_form(table_, barcode, resp) ==
    IF Falsy(barcode) THEN <<>>
    ELSE IF get_product_by_barcode(table_, barcode) # None
    THEN <<get_product_by_barcode(table_, barcode)[1]>>
    ELSE IF resp.raised \/ resp.status_code # 200 \/ resp.status # 1 THEN <<>>
    ELSE LET product == resp.product
             serving_size == ServingSize(product)
             raw_nutrients == RawNutrients(product.nutriments, 1)
             normalized_ingredients == normalize_ingredient_list(product.ingredients_text)
             normalized_nutrients == normalize_nutrients(raw_nutrients, serving_size)
         IN  <<ProductData(barcode, product.product_name, product.brands,
                           normalized_ingredients.value, normalized_nutrients.value,
                           serving_size, <<>>)>>

(***************************************************************************)
(* Inputs                                                                  *)
(***************************************************************************)
RawAlphabet == {"a", "B", " ", ",", ";", "(", ")"}

RawStrings == UNION {[1..n -> RawAlphabet] : n \in 0..MaxRawLen}

RawInputs == RawStrings \cup {None}

\* ingredient strings: one with two harmful terms in mixed case, an
\* ultra-processed marker, a beneficial term, and one that matches no term
IngredientPool ==
    { <<"B","h","a"," ","b","h","t">>, <<"e","m","u","l","s","i","f","i","e","r">>,
      <<"o","a","t","s">>, <<"s","a","l","t">> }

IngredientLists == UNION {[1..n -> IngredientPool] : n \in 0..MaxIngredients}

ShortLists == {<<>>} \cup {<<i>> : i \in IngredientPool}

NutrientKeys == <<dietary_fiber, protein, sodium, saturated_fat, total_sugars>>

UnitOf(k) == IF k = sodium THEN "mg" ELSE "g"

\* the map that has key NutrientKeys[i] iff choice[i] is not empty, with
\* the element of choice[i] as its per_100g
NutrientMapOf(choice) ==
    [k \in {NutrientKeys[i] : i \in {j \in 1..Len(NutrientKeys) : choice[j] # {}}} |->
        LET i == CHOOSE j \in 1..Len(NutrientKeys) : NutrientKeys[j] = k
            v == CHOOSE x \in choice[i] : TRUE
        IN  NutrientInfo(k, v, UnitOf(k), v)]

Optional(values) == {{}} \cup {{v} : v \in values}

NutrientMapsOver(values) ==
    { NutrientMapOf(<<c1, c2, c3, c4, c5>>) :
        c1 \in Optional(values[1]), c2 \in Optional(values[2]),
        c3 \in Optional(values[3]), c4 \in Optional(values[4]),
        c5 \in Optional(values[5]) }

\* per_100g values in thousandths, per key of NutrientKeys: negative, zero,
\* below and at each threshold, between threshold and cap, beyond the cap,
\* very large
FineValues ==
    << {-1000, 6000, 6500, 20000},
       {0, 11750, 12000, 2000000},
       {60000, 60250, 135000, 2000000},
       {5000, 5500, 10000},
       {15000, 15500, 25000} >>

\* one value between threshold and cap per key, and the penalties' caps
CoarseValues ==
    << {6500}, {12500}, {135000, 2000000}, {5500, 10000}, {15500, 25000} >>

FineMaps == NutrientMapsOver(FineValues)

CoarseMaps == NutrientMapsOver(CoarseValues)

Anonymous == [barcode |-> None, name |-> <<>>, brand |-> <<>>,
              serving_size_g |-> 0, categories |-> <<>>]

Identities ==
    { Anonymous,
      [barcode |-> <<"8","9">>, name |-> <<"O","a","t","s">>, brand |-> <<"A","c","m","e">>,
       serving_size_g |-> 40, categories |-> <<"snack">>],
      [barcode |-> <<>>, name |-> <<"O","a","t","s">>, brand |-> <<"A","c","m","e">>,
       serving_size_g |-> 100, categories |-> <<>>] }

Product(id, ingredients, nutrients) ==
    ProductData(id.barcode, id.name, id.brand, ingredients, nutrients,
                id.serving_size_g, id.categories)

\* the products of the call sequences
FewProducts ==
    { Product(id, ingredients, nutrients) :
        id \in {Anonymous},
        ingredients \in {<<>>, <<<<"B","h","a"," ","b","h","t">>, <<"o","a","t","s">>>>},
        nutrients \in NutrientMapsOver(<<{6500}, {}, {135000}, {}, {}>>) \ {NutrientMapOf(<<{6500}, {}, {}, {}, {}>>)} }

hydrolyzed_protein == <<"h","y","d","r","o","l","y","z","e","d"," ","p","r","o","t","e","i","n">>

\* ingredients to classify: one with an ultra-processed and a beneficial
\* term, one with a harmful and a beneficial term, one with a harmful and an
\* ultra-processed term, one of a single set in mixed case, and two of none
ClassifyPool ==
    { hydrolyzed_protein, <<"b","h","t"," ","o","a","t","s">>,
      <<"e","m","u","l","s","i","f","i","e","r"," ","(","b","h","a",")">>, <<"W","h","o","l","e"," ","W","h","e","a","t">>,
      <<"s","a","l","t">>, <<"p","r","o","t">> }

ClassifyLists == UNION {[1..n -> ClassifyPool] : n \in 0..MaxIngredients}

\* raw nutrient keys: two spellings of sodium, cholesterol, and two keys that
\* normalize to the same output key
RawKeys ==
    { sodium, <<"S","o","d","i","u","m">>, cholesterol,
      <<"T","o","t","a","l"," ","F","a","t">>, <<"t","o","t","a","l","_","f","a","t">> }

\* raw nutrient values: milligrams in both cases, grams with a fraction, a
\* bare number, both energy units, a text without a digit, and None
RawValues ==
    { <<"3","0","0","m","g">>, <<"2","0","0","0"," ","M","G">>, <<"1",".","5","g">>, <<"8">>,
      <<"2","5","0","k","c","a","l">>, <<"9","0"," ","c","a","l">>, <<"t","r","a","c","e">>, None }

\* serving sizes in grams: negative, zero, and two that divide every value
ServingSizes == {-10, 0, 50, 100}

\* the items of a dict: no key twice
RawPanels(n) ==
    {items \in [1..n -> RawKeys \X RawValues] :
        \A i, j \in 1..n : items[i][1] = items[j][1] => i = j}

\* every combination of barcode (None, empty, given) and brand (empty, given)
Barcodes == {None, <<>>, <<"8","9">>}

Brands == {<<>>, <<"A","c","m","e">>}

\* nutrient maps, empty or not, with a value under and a value over the
\* threshold of each of two rules
ConfidenceMaps == NutrientMapsOver(<<{5000, 6500}, {}, {60000, 135000}, {}, {}>>)

\* ingredient lists that fire no ingredient rule, one, two, and all three
MixedLists ==
    { <<>>,
      <<<<"s","a","l","t">>>>,
      <<<<"o","a","t","s">>, <<"B","h","a"," ","b","h","t">>>>,
      <<<<"e","m","u","l","s","i","f","i","e","r">>, <<"e","m","u","l","s","i","f","i","e","r">>, <<"e","m","u","l","s","i","f","i","e","r">>, <<"e","m","u","l","s","i","f","i","e","r">>>>,
      <<<<"o","a","t","s">>, <<"e","m","u","l","s","i","f","i","e","r">>, <<"B","h","a"," ","b","h","t">>, <<"e","m","u","l","s","i","f","i","e","r">>, <<"s","a","l","t">>, <<"e","m","u","l","s","i","f","i","e","r">>, <<"e","m","u","l","s","i","f","i","e","r">>>> }

\* nutrient maps with every rule's key absent or over its threshold, and
\* sodium also at its threshold
MixedMaps == NutrientMapsOver(<<{6500}, {12500}, {60000, 135000}, {5500}, {25000}>>)

\* ingredient lists at the ends of the scale: none, one beneficial, five
\* beneficial, and three harmful with four ultra-processed
ExtremeLists ==
    { <<>>,
      <<<<"o","a","t","s">>>>,
      <<<<"o","a","t","s">>, <<"o","a","t","s">>, <<"o","a","t","s">>, <<"o","a","t","s">>, <<"o","a","t","s">>>>,
      <<<<"B","h","a"," ","b","h","t">>, <<"B","h","a"," ","b","h","t">>, <<"B","h","a"," ","b","h","t">>, <<"e","m","u","l","s","i","f","i","e","r">>, <<"e","m","u","l","s","i","f","i","e","r">>, <<"e","m","u","l","s","i","f","i","e","r">>, <<"e","m","u","l","s","i","f","i","e","r">>>> }

\* nutrient maps with every rule's key absent or far beyond its cap, and a
\* fiber value just beyond the cap's 6.67 g
ExtremeMaps ==
    NutrientMapsOver(<<{7000, 2000000}, {2000000}, {2000000}, {2000000}, {2000000}>>)

\* sodium amounts per serving as typed into the form, in milligrams: every
\* 5 mg up to 300 mg, and two larger ones
SodiumAmounts == {5 * i : i \in 0..60} \cup {750, 1500}

\* serving sizes of the form, in grams
FormServings == {50, 100}

\* the serving_size of a response's product: absent, grams with and
\* without a space, inside a longer text, in capitals, and without grams
ServingTexts ==
    { None, <<"5","0","g">>, <<"1","0","0"," ","g">>, <<"1"," ","b","a","r"," ","(","2","0","0"," ","g",")">>, <<"3","0"," ","G">>, <<"2"," ","c","u","p","s">> }

\* the nutriments of a response: each absent or with one per-100g figure,
\* in thousandths
NutrimentValues ==
    << {250000}, {10000}, {5500}, {400}, {60000}, {7000}, {20000}, {12000} >>

NutrimentMaps ==
    { [k \in {Nutriments[i][1] : i \in {j \in 1..Len(Nutriments) : present[j]}} |->
          LET i == CHOOSE j \in 1..Len(Nutriments) : Nutriments[j][1] = k
          IN  CHOOSE v \in NutrimentValues[i] : TRUE] :
      present \in [1..Len(Nutriments) -> BOOLEAN] }

\* a response with a product
Found(product) == [raised |-> FALSE, status_code |-> 200, status |-> 1, product |-> product]

\* the product of the responses without one
NoProduct ==
    [product_name |-> <<>>, brands |-> <<>>, ingredients_text |-> <<>>,
     serving_size |-> None, nutriments |-> <<>>]

\* the request raises, answers with an error status, or finds no product
Failures ==
    { [raised |-> TRUE, status_code |-> 0, status |-> 0, product |-> NoProduct],
      [raised |-> FALSE, status_code |-> 500, status |-> 0, product |-> NoProduct],
      [raised |-> FALSE, status_code |-> 200, status |-> 0, product |-> NoProduct] }

\* products to save: two of different content under one barcode, one of
\* them without nutrients, and one without barcode, ingredients or nutrients
DbProducts ==
    { ProductData(<<"8","9">>, <<"O","a","t","s">>, <<"A","c","m","e">>, <<<<"o","a","t","s">>>>,
                  NutrientMapOf(<<{}, {}, {135000}, {}, {}>>), 40, <<"snack">>),
      ProductData(<<"8","9">>, <<"B","a","r","s">>, <<>>, <<<<"B","h","a"," ","b","h","t">>>>,
                  NutrientMapOf(<<{}, {}, {}, {}, {}>>), 100, <<>>),
      ProductData(None, <<"S","o","u","p">>, <<>>, <<>>,
                  NutrientMapOf(<<{}, {}, {}, {}, {}>>), 100, <<>>) }

\* the barcodes looked up: one that products are saved under, one that none is
LookupBarcodes == {<<"8","9">>, <<"1","2">>}

(***************************************************************************)
(* The state machine                                                       *)
(***************************************************************************)
Scorers == {1, 2}

\* the threads of the application that share scorer 1
Threads == 1..MaxThreads

\* the local variables of a call that has not started
NoFrame == [base_score |-> 0, drivers |-> <<>>, warnings |-> <<>>, confidence_factors |-> {}]

\* one frame for all calls, as if the locals were attributes of the scorer
FrameShared(t) == 1

\* the frame of thread t's call: locals belong to the call
Frame(t) == t

\* HealthScorer() twice: each scorer gets a sources list of its own
Init ==
    /\ heap = <<SOURCES, SOURCES>>
    /\ scorers = <<1, 2>>
    /\ calls = <<>>
    /\ touched = {}
    /\ norm = <<>>
    /\ classified = <<>>
    /\ panels = <<>>
    /\ threads = [t \in Threads |-> [pc |-> "idle", product |-> Product(Anonymous, <<>>, <<>>)]]
    /\ frames = [f \in Threads |-> NoFrame]
    /\ table = {}
    /\ clock = 0
    /\ saved = <<>>
    /\ fetched = <<>>
    /\ lookups = <<>>

\* the HealthScore a reference denotes on heap h: every list field read off the heap
Deref(h, score) ==
    [overall_score |-> score.overall_score,
     band |-> score.band,
     drivers |-> h[score.drivers],
     evidence_sources |-> h[score.evidence_sources],
     confidence |-> score.confidence,
     warnings |-> h[score.warnings]]

\* a caller evaluates scorer.score_product(product); the call is recorded with
\* its argument as passed, the argument object as the call left it, the
\* HealthScore returned and the value that HealthScore had on return
ScoreProduct(self, product) ==
    \E ord \in IterOrders :
        \E r \in {score_product(self, product, ord)} :
            /\ heap' = r.heap
            /\ calls' = Append(calls, [self |-> self,
                                       product |-> product,
                                       after |-> r.product,
                                       returned |-> r.returned,
                                       value |-> Deref(r.heap, r.returned)])
            /\ UNCHANGED <<scorers, touched, norm, classified, panels, threadvars, dbvars, formvars>>

\* the form is submitted with a sodium amount and a serving size, and the
\* product it builds is scored: normalize_nutrients, ProductData, score_product
AnalyzeSodium ==
    /\ calls = <<>>
    /\ panels = <<>>
    /\ \E amount \in SodiumAmounts, serving_size \in FormServings, ord \in IterOrders :
           \E raw_nutrients \in {<< <<sodium, DecimalText(amount) \o <<"m","g">>>> >>} :
               \E normalized_nutrients \in {normalize_nutrients(raw_nutrients, serving_size)} :
                   \E product \in {ProductData(None, <<"O","a","t","s">>, <<>>, <<>>,
                                                normalized_nutrients.value, serving_size, <<>>)} :
                       \E r \in {score_product(1, product, ord)} :
                           /\ panels' = <<[raw_nutrients |-> raw_nutrients,
                                           serving_size_g |-> serving_size,
                                           out |-> normalized_nutrients]>>
                           /\ heap' = r.heap
                           /\ calls' = <<[self |-> 1, product |-> product, after |-> r.product,
                                          returned |-> r.returned,
                                          value |-> Deref(r.heap, r.returned)]>>
    /\ UNCHANGED <<scorers, touched, norm, classified, threadvars, dbvars, formvars>>

\* thread t calls score_product(product) on scorer 1 and runs up to the
\* nutrient block: the four locals are bound
Enter(t) ==
    /\ threads[t].pc = "idle"
    /\ \E product \in FewProducts :
           threads' = [threads EXCEPT ![t] = [pc |-> "nutrients", product |-> product]]
    /\ frames' = [frames EXCEPT ![Frame(t)] =
                      [base_score |-> Milli(50), drivers |-> <<>>, warnings |-> <<>>,
                       confidence_factors |-> {}]]
    /\ UNCHANGED <<heap, scorers, calls, touched, norm, classified, panels, dbvars, formvars>>

\* thread t runs `if product.nutrients:` and its block
NutrientBlock(t) ==
    /\ threads[t].pc = "nutrients"
    /\ threads' = [threads EXCEPT ![t].pc = "ingredients"]
    /\ frames' =
           IF DOMAIN threads[t].product.nutrients # {}
           THEN \* the block's four statements
                LET out == _score_nutrients(threads[t].product.nutrients)
                    f == frames[Frame(t)]
                IN  [frames EXCEPT ![Frame(t)] =
                        [base_score |-> f.base_score + out.score_delta,
                         drivers |-> f.drivers \o out.drivers,
                         warnings |-> f.warnings \o out.warnings,
                         confidence_factors |-> f.confidence_factors \cup {"nutrients"}]]
           ELSE frames
    /\ UNCHANGED <<heap, scorers, calls, touched, norm, classified, panels, dbvars, formvars>>

\* thread t runs `if product.ingredients:` and its block
IngredientBlock(t) ==
    /\ threads[t].pc = "ingredients"
    /\ threads' = [threads EXCEPT ![t].pc = "return"]
    /\ \E ord \in IterOrders :
           frames' =
               IF threads[t].product.ingredients # <<>>
               THEN LET out == _score_ingredients(threads[t].product.ingredients, ord)
                        f == frames[Frame(t)]
                    IN  [frames EXCEPT ![Frame(t)] =
                            [base_score |-> f.base_score + out.score_delta,
                             drivers |-> f.drivers \o out.drivers,
                             warnings |-> f.warnings \o out.warnings,
                             confidence_factors |-> f.confidence_factors \cup {"ingredients"}]]
               ELSE frames
    /\ UNCHANGED <<heap, scorers, calls, touched, norm, classified, panels, dbvars, formvars>>

\* thread t clamps, picks the band and the confidence, and returns the
\* HealthScore; the call is recorded with the threads then inside a call
ReturnScore(t) ==
    /\ threads[t].pc = "return"
    /\ threads' = [threads EXCEPT ![t].pc = "done"]
    /\ LET f == frames[Frame(t)]
           product == threads[t].product
           final_score == Clamp(PyInt(f.base_score))
           returned == [overall_score |-> final_score,
                        band |-> Band(final_score),
                        drivers |-> Len(heap) + 1,
                        evidence_sources |-> scorers[1],
                        confidence |-> _calculate_confidence(f.confidence_factors, product),
                        warnings |-> Len(heap) + 2]
       IN  /\ heap' = heap \o <<f.drivers, f.warnings>>
           /\ calls' = Append(calls, [self |-> 1,
                                      product |-> product,
                                      after |-> product,
                                      returned |-> returned,
                                      value |-> Deref(heap', returned),
                                      overlap |-> {u \in Threads \ {t} :
                                                      threads[u].pc \notin {"idle", "done"}}])
    /\ UNCHANGED <<scorers, touched, norm, classified, panels, frames, dbvars, formvars>>

\* one step of one thread
ThreadStep ==
    \E t \in Threads : Enter(t) \/ NutrientBlock(t) \/ IngredientBlock(t) \/ ReturnScore(t)

\* the HealthScore objects a caller may pass to save_product
DbScores == {Deref(r.heap, r.returned) : r \in {score_product(1, p, "listed") : p \in DbProducts}}

\* a caller evaluates db.save_product(product, score); the clock has moved on
\* since the save before
SaveProduct ==
    /\ Len(saved) < MaxSaves
    /\ fetched = <<>>
    /\ clock' = clock + 1
    /\ \E product \in DbProducts, score \in DbScores :
           \E r \in {save_product(table, Len(saved) + 1, clock', product, score)} :
               /\ table' = r.table
               /\ saved' = Append(saved, [product |-> product, score |-> score,
                                          returned |-> r.returned])
    /\ UNCHANGED <<heap, scorers, calls, touched, norm, classified, panels, threadvars, fetched, formvars>>

\* the user presses the form's button with a barcode typed in, and the
\* request is answered
LookupBarcode ==
    /\ lookups = <<>>
    /\ \E barcode \in {<<>>, <<"8","9">>} :
           \E resp \in Failures \cup
                       { Found([product_name |-> <<"O","a","t","s">>, brands |-> <<"A","c","m","e">>,
                                ingredients_text |-> <<"o","a","t","s",","," ","s","a","l","t">>,
                                serving_size |-> serving_size, nutriments |-> nutriments]) :
                           serving_size \in ServingTexts, nutriments \in NutrimentMaps } :
               lookups' = <<[barcode |-> barcode, resp |-> resp,
                             out |-> barcode_lookup_form(table, barcode, resp)]>>
    /\ UNCHANGED <<heap, scorers, calls, touched, norm, classified, panels, threadvars, dbvars>>

\* a caller evaluates db.get_product_by_barcode(barcode)
GetProductByBarcode ==
    /\ fetched = <<>>
    /\ \E barcode \in LookupBarcodes :
           fetched' = <<[barcode |-> barcode, out |-> get_product_by_barcode(table, barcode)]>>
    /\ UNCHANGED <<heap, scorers, calls, touched, norm, classified, panels, threadvars,
                   table, clock, saved, formvars>>

\* a caller evaluates normalize_ingredient_list(raw)
NormalizeIngredientList ==
    /\ norm = <<>>
    /\ \E raw \in RawInputs :
           norm' = <<[raw |-> raw, out |-> normalize_ingredient_list(raw)]>>
    /\ UNCHANGED <<heap, scorers, calls, touched, classified, panels, threadvars, dbvars, formvars>>

\* a caller evaluates classify_ingredients(ingredients)
ClassifyIngredients ==
    /\ classified = <<>>
    /\ \E ingredients \in ClassifyLists, ord \in IterOrders :
           classified' = <<[ingredients |-> ingredients,
                            out |-> classify_ingredients(ingredients, ord)]>>
    /\ UNCHANGED <<heap, scorers, calls, touched, norm, panels, threadvars, dbvars, formvars>>

\* a caller evaluates normalize_nutrients(raw_nutrients, serving_size_g)
NormalizeNutrients ==
    /\ panels = <<>>
    /\ \E n \in 0..MaxEntries, serving_size_g \in ServingSizes :
           \E raw_nutrients \in RawPanels(n) :
               panels' = <<[raw_nutrients |-> raw_nutrients,
                            serving_size_g |-> serving_size_g,
                            out |-> normalize_nutrients(raw_nutrients, serving_size_g)]>>
    /\ UNCHANGED <<heap, scorers, calls, touched, norm, classified, threadvars, dbvars, formvars>>

\* one call on a product with any ingredient list
ScoreIngredientList ==
    /\ calls = <<>>
    /\ \E ingredients \in IngredientLists, nutrients \in CoarseMaps :
           ScoreProduct(1, Product(Anonymous, ingredients, nutrients))

\* one call on a product with any nutrient panel
ScoreNutrientPanel ==
    /\ calls = <<>>
    /\ \E id \in Identities, ingredients \in ShortLists, nutrients \in FineMaps :
           ScoreProduct(1, Product(id, ingredients, nutrients))

\* one call on a product that has a nutrient panel and at most one ingredient
ScorePanel ==
    /\ calls = <<>>
    /\ \E ingredients \in {<<>>, <<<<"s","a","l","t">>>>}, nutrients \in FineMaps :
           ScoreProduct(1, Product(Anonymous, ingredients, nutrients))

\* one call on a product that has ingredients only
ScoreIngredients ==
    /\ calls = <<>>
    /\ \E ingredients \in IngredientLists :
           ScoreProduct(1, Product(Anonymous, ingredients, NutrientMapOf(<<{}, {}, {}, {}, {}>>)))

\* one call on a product with a nutrient panel and an ingredient list
ScoreMixed ==
    /\ calls = <<>>
    /\ \E ingredients \in MixedLists, nutrients \in MixedMaps :
           ScoreProduct(1, Product(Anonymous, ingredients, nutrients))

\* one of two calls on a product at an end of the scale
ScoreExtreme ==
    /\ Len(calls) < 2
    /\ \E ingredients \in ExtremeLists, nutrients \in ExtremeMaps :
           ScoreProduct(1, Product(Anonymous, ingredients, nutrients))

\* one call on a product with any barcode and brand
ScoreIdentified ==
    /\ calls = <<>>
    /\ \E barcode \in Barcodes, brand \in Brands,
          ingredients \in ShortLists, nutrients \in ConfidenceMaps :
           ScoreProduct(1, ProductData(barcode, <<"O","a","t","s">>, brand, ingredients,
                                       nutrients, 40, <<>>))

\* one more call, on either scorer
ScoreAgain ==
    /\ Len(calls) < MaxCalls
    /\ \E self \in Scorers, product \in FewProducts : ScoreProduct(self, product)

FieldsOfLists == {"drivers", "warnings", "evidence_sources"}

\* the holder of an earlier result appends to one of its lists
CallerAppends ==
    /\ Cardinality(touched) < MaxTouches
    /\ \E i \in 1..Len(calls), f \in FieldsOfLists :
           /\ <<i, f>> \notin touched
           /\ heap' = [heap EXCEPT ![calls[i].returned[f]] =
                          Append(@, IF f = "drivers"
                                    THEN ScoreDriver("note", "neutral", 0,
                                                     Explanation("note", 0, <<>>), "caller")
                                    ELSE "caller's note")]
           /\ touched' = touched \cup {<<i, f>>}
    /\ UNCHANGED <<scorers, calls, norm, classified, panels, threadvars, dbvars, formvars>>

SpecNormalize == Init /\ [][NormalizeIngredientList]_vars

SpecClassify == Init /\ [][ClassifyIngredients]_vars

SpecNutrients == Init /\ [][NormalizeNutrients]_vars

SpecScore == Init /\ [][ScoreIngredientList \/ ScoreNutrientPanel]_vars

SpecPanel == Init /\ [][ScorePanel]_vars

SpecIngredients == Init /\ [][ScoreIngredients]_vars

SpecMixed == Init /\ [][ScoreMixed]_vars

SpecThreads == Init /\ [][ThreadStep]_vars

SpecSodium == Init /\ [][AnalyzeSodium]_vars

SpecLookup == Init /\ [][LookupBarcode]_vars

SpecDatabase == Init /\ [][SaveProduct \/ GetProductByBarcode]_vars

SpecExtremes == Init /\ [][ScoreExtreme]_vars

SpecConfidence == Init /\ [][ScoreIdentified]_vars

SpecCalls == Init /\ [][ScoreAgain]_vars

Next == ScoreAgain \/ CallerAppends

Spec == Init /\ [][Next]_vars

(***************************************************************************)
(* Properties                                                              *)
(***************************************************************************)
Calls == 1..Len(calls)

RECURSIVE DeltaSum(_)
DeltaSum(drivers) ==
    IF drivers = <<>> THEN 0 ELSE Head(drivers).score_delta + DeltaSum(Tail(drivers))

\* 50 plus the deltas of the drivers a call returned, in thousandths
Total(i) == 50000 + DeltaSum(calls[i].value.drivers)

\* the whole part of t thousandths, the fraction dropped towards zero
WholePart(t) == IF t >= 0 THEN t \div 1000 ELSE -((-t) \div 1000)

Bounded(n) == IF n < 0 THEN 0 ELSE IF n > 100 THEN 100 ELSE n

Factors(i) == {calls[i].value.drivers[k].factor : k \in 1..Len(calls[i].value.drivers)}

\* C1: every score_product call returns an overall_score in 0..100.
C1_ScoreInRange ==
    \A i \in Calls : calls[i].value.overall_score \in 0..100

\* a call whose deltas sum below -50 and which returned 0
C1_Witness ==
    \E i \in Calls : Total(i) < 0 /\ calls[i].value.overall_score = 0

\* C2: the band of every returned HealthScore is the one its overall_score
\* falls in: A from 80, B 65..79, C 50..64, D 35..49, E below 35.
C2_BandThresholds ==
    \A i \in Calls :
        LET score == calls[i].value.overall_score
            band == calls[i].value.band
        IN  /\ band = "A" <=> score >= 80
            /\ band = "B" <=> (65 <= score /\ score <= 79)
            /\ band = "C" <=> (50 <= score /\ score <= 64)
            /\ band = "D" <=> (35 <= score /\ score <= 49)
            /\ band = "E" <=> score < 35

\* a call that returned exactly 65, the lowest score of band B
C2_Witness ==
    \E i \in Calls : calls[i].value.overall_score = 65 /\ calls[i].value.band = "B"

\* C3 as stated: overall_score is 50 plus the returned drivers' deltas,
\* rounded to a nearest integer and clamped to 0..100.
C3_RoundedTotal ==
    \A i \in Calls :
        \E n \in -100..200 :
            /\ 2 * (1000 * n - Total(i)) <= 1000
            /\ 2 * (Total(i) - 1000 * n) <= 1000
            /\ calls[i].value.overall_score = Bounded(n)

\* C3 as amended: overall_score is 50 plus the returned drivers' deltas with
\* the fraction dropped (towards zero), clamped to 0..100.
C3_TruncatedTotal ==
    \A i \in Calls : calls[i].value.overall_score = Bounded(WholePart(Total(i)))

\* a call whose total has a fraction of .75 and which returned the whole part
C3_Witness ==
    \E i \in Calls :
        /\ Total(i) > 0
        /\ Total(i) % 1000 = 750
        /\ calls[i].value.overall_score = Total(i) \div 1000

\* C4: whatever the product and however many score_product calls came before
\* on the scorer, the evidence_sources returned are the same six citations
\* in the same order.
C4_SameSixSources ==
    \A i \in Calls :
        /\ Len(calls[i].value.evidence_sources) = 6
        /\ calls[i].value.evidence_sources = SOURCES
        /\ \A j \in Calls : calls[j].value.evidence_sources = calls[i].value.evidence_sources

\* two calls on one scorer, the first with drivers and the second with none
C4_Witness ==
    \E i, j \in Calls :
        /\ i < j
        /\ calls[i].self = calls[j].self
        /\ calls[i].value.drivers # <<>>
        /\ calls[j].value.drivers = <<>>
        /\ Len(calls[j].value.evidence_sources) = 6

\* what score_product returns for the product of call i when no caller has
\* modified any list
Unmodified(i) ==
    LET l == ScoreLocals(calls[i].product, "listed")
    IN  [overall_score |-> l.final_score,
         band |-> l.band,
         drivers |-> l.drivers,
         evidence_sources |-> SOURCES,
         confidence |-> l.confidence,
         warnings |-> l.warnings]

\* C5: the lists of a returned HealthScore are shared with nothing: a result
\* whose own lists no caller has modified is what it would be had no caller
\* modified any list, whether it was returned before or after the
\* modification of another result.
C5_FreshContainers ==
    \A i \in Calls :
        (\A f \in FieldsOfLists : <<i, f>> \notin touched)
            => Deref(heap, calls[i].returned) = Unmodified(i)

C7_ArgumentUnchanged ==
    \A i \in Calls : calls[i].after = calls[i].product

\* a call on a product with a mixed-case ingredient and a nutrient map
C7_Witness ==
    \E i \in Calls :
        /\ Len(calls[i].product.ingredients) = MaxIngredients
        /\ \E k \in 1..MaxIngredients :
               Lower(calls[i].product.ingredients[k]) # calls[i].product.ingredients[k]
        /\ DOMAIN calls[i].product.nutrients # {}
        /\ calls[i].after = calls[i].product

\* the factor label of the driver of the nutrient rule on key k
RuleFactor(k) ==
    IF k = dietary_fiber THEN "High Fiber Content"
    ELSE IF k = protein THEN "Good Protein Source"
    ELSE IF k = sodium THEN "High Sodium Content"
    ELSE IF k = saturated_fat THEN "High Saturated Fat"
    ELSE "High Sugar Content"

\* the documented condition of the rule on key k, for per_100g v (thousandths)
OverThreshold(k, v) ==
    IF k = dietary_fiber THEN v >= 6000
    ELSE IF k = protein THEN v >= 12000
    ELSE IF k = sodium THEN v * 10 > 600000
    ELSE IF k = saturated_fat THEN v > 5000
    ELSE v > 15000

IngredientFactors ==
    {"Harmful Additives Present", "Highly Processed Food", "Beneficial Ingredients"}

\* C8: every call returns a HealthScore with all six fields set, whatever
\* keys are missing and whatever the per_100g values; a nutrient rule whose
\* key is missing or whose value is not over its threshold, and every
\* ingredient rule of an empty ingredient list, adds no driver and nothing
\* to the score.
C8_NeverFails ==
    \A i \in Calls :
        LET v == calls[i].value
            nutrients == calls[i].product.nutrients
        IN  /\ DOMAIN v = {"overall_score", "band", "drivers", "evidence_sources",
                           "confidence", "warnings"}
            /\ v.overall_score \in Int
            /\ v.band \in {"A", "B", "C", "D", "E"}
            /\ v.confidence \in {"high", "medium", "low"}
            /\ \A n \in 1..Len(NutrientKeys) :
                   LET k == NutrientKeys[n]
                   IN  (k \notin DOMAIN nutrients \/ ~OverThreshold(k, nutrients[k].per_100g))
                           => RuleFactor(k) \notin Factors(i)
            /\ calls[i].product.ingredients = <<>> => Factors(i) \cap IngredientFactors = {}
            /\ v.overall_score = Bounded(WholePart(Total(i)))

\* a call with a negative fiber value, no protein key, a very large sodium
\* value and no ingredients, which returned the sodium driver alone
C8_Witness ==
    \E i \in Calls :
        LET nutrients == calls[i].product.nutrients
        IN  /\ DOMAIN nutrients = {dietary_fiber, sodium}
            /\ nutrients[dietary_fiber].per_100g < 0
            /\ nutrients[sodium].per_100g = 2000000
            /\ calls[i].product.ingredients = <<>>
            /\ Factors(i) = {"High Sodium Content"}
            /\ calls[i].value.overall_score = 35

\* C9: a product with no nutrients and no ingredients scores 50, band C,
\* with no drivers and no warnings, whatever its other fields.
C9_NeutralBase ==
    \A i \in Calls :
        (DOMAIN calls[i].product.nutrients = {} /\ calls[i].product.ingredients = <<>>)
            => /\ calls[i].value.overall_score = 50
               /\ calls[i].value.band = "C"
               /\ calls[i].value.drivers = <<>>
               /\ calls[i].value.warnings = <<>>

\* a call on an empty product that has a barcode, a brand and categories
C9_Witness ==
    \E i \in Calls :
        /\ DOMAIN calls[i].product.nutrients = {}
        /\ calls[i].product.ingredients = <<>>
        /\ calls[i].product.barcode # None
        /\ calls[i].product.brand # <<>>
        /\ calls[i].product.categories # <<>>
        /\ calls[i].value.overall_score = 50

\* C10: normalize_ingredient_list returns the empty list, raising nothing,
\* for the empty string and for None.
C10_EmptyOrAbsent ==
    \A k \in 1..Len(norm) :
        norm[k].raw \in {None, <<>>}
            => norm[k].out.raised = "" /\ norm[k].out.value = <<>>

\* the call on None returned the empty list
C10_Witness ==
    \E k \in 1..Len(norm) :
        norm[k].raw = None /\ norm[k].out.raised = "" /\ norm[k].out.value = <<>>

\* the positions of raw strictly between a '(' and the next ')' after it
Enclosed(raw) ==
    {i \in 1..Len(raw) :
        \E j \in 1..(i - 1), k \in (i + 1)..Len(raw) :
            /\ raw[j] = "(" /\ raw[k] = ")"
            /\ \A m \in (j + 1)..(k - 1) : raw[m] # ")"}

\* every ')' of raw closes a '(' opened since the one before, and every '('
\* is closed before the next one opens
RECURSIVE BalancedFrom(_, _, _)
BalancedFrom(raw, i, open) ==
    IF i > Len(raw) THEN ~open
    ELSE IF raw[i] = "(" THEN ~open /\ BalancedFrom(raw, i + 1, TRUE)
    ELSE IF raw[i] = ")" THEN open /\ BalancedFrom(raw, i + 1, FALSE)
    ELSE BalancedFrom(raw, i + 1, open)

Balanced(raw) == BalancedFrom(raw, 1, FALSE)

\* the str that occur in a returned list
Returned(k) == {norm[k].out.value[n] : n \in 1..Len(norm[k].out.value)}

Letters == {"a", "b"}

\* C11: normalize_ingredient_list strips parenthetical asides from every raw
\* input: a letter that raw has only between a '(' and the next ')' is in no
\* returned string, whatever else the aside holds, and when the parentheses
\* of raw are balanced and not nested no returned string has a '(' or a ')'.
C11_AsidesStripped ==
    \A k \in 1..Len(norm) :
        (norm[k].raw # None /\ norm[k].out.raised = "") =>
            LET raw == norm[k].raw
            IN  /\ \A c \in Letters :
                       (\A i \in 1..Len(raw) : LowerChar(raw[i]) = c => i \in Enclosed(raw))
                           => \A s \in Returned(k) : ~Contains(<<c>>, s)
                /\ Balanced(raw)
                       => \A s \in Returned(k) :
                              ~Contains(<<"(">>, s) /\ ~Contains(<<")">>, s)

\* the pieces of raw between its separators, by the separators' positions
Separators(raw) == {i \in 1..Len(raw) : raw[i] \in {",", ";"}}

Token(raw, n) ==
    LET before == {i \in Separators(raw) :
                      Cardinality({j \in Separators(raw) : j <= i}) = n - 1}
        after == {i \in Separators(raw) :
                      Cardinality({j \in Separators(raw) : j <= i}) = n}
        first == IF before = {} THEN 1 ELSE 1 + CHOOSE i \in before : TRUE
        last == IF after = {} THEN Len(raw) ELSE (CHOOSE i \in after : TRUE) - 1
    IN  SubSeq(raw, first, last)

Tokens(raw) == [n \in 1..(Cardinality(Separators(raw)) + 1) |-> Token(raw, n)]

LongEnough(s) == Len(s) >= 2

\* C12: every string normalize_ingredient_list returns is lower-case, neither
\* starts nor ends with whitespace, has no two whitespace characters in a
\* row, has no ',' and no ';', and is at least two characters long; the
\* returned strings are the cleaned tokens of raw in raw's order, without
\* those that cleaning leaves empty or one character long.
C12_CleanedTokens ==
    \A k \in 1..Len(norm) :
        (~Falsy(norm[k].raw) /\ norm[k].out.raised = "") =>
            /\ \A s \in Returned(k) :
                   /\ Lower(s) = s
                   /\ Len(s) >= 2
                   /\ ~IsSpace(s[1]) /\ ~IsSpace(s[Len(s)])
                   /\ \A i \in 1..(Len(s) - 1) : ~(IsSpace(s[i]) /\ IsSpace(s[i + 1]))
                   /\ \A i \in 1..Len(s) : s[i] \notin {",", ";"}
            /\ LET tokens == Tokens(norm[k].raw)
                   cleaned == [n \in 1..Len(tokens) |-> CleanIngredient(Lower(tokens[n]))]
               IN  norm[k].out.value = SelectSeq(cleaned, LongEnough)

\* two tokens were returned in raw's order, one of them lower-cased
C12_Witness ==
    \E k \in 1..Len(norm) :
        /\ Len(norm[k].out.value) = 2
        /\ norm[k].out.value[1] # norm[k].out.value[2]
        /\ \E i \in 1..Len(norm[k].raw) : norm[k].raw[i] = "B"
        /\ Contains(<<"b">>, norm[k].out.value[1])

\* the category of one ingredient by the priority order of the term sets
HasTermOf(terms, ingredient) ==
    \E n \in 1..Len(terms) : Contains(terms[n], Lower(ingredient))

IsHarmful(ingredient) == HasTermOf(HARMFUL_ADDITIVES, ingredient)

IsProcessed(ingredient) ==
    ~IsHarmful(ingredient) /\ HasTermOf(ULTRA_PROCESSED_MARKERS, ingredient)

IsBeneficial(ingredient) ==
    /\ ~IsHarmful(ingredient)
    /\ ~HasTermOf(ULTRA_PROCESSED_MARKERS, ingredient)
    /\ HasTermOf(BENEFICIAL_INGREDIENTS, ingredient)

IsOther(ingredient) ==
    /\ ~HasTermOf(HARMFUL_ADDITIVES, ingredient)
    /\ ~HasTermOf(ULTRA_PROCESSED_MARKERS, ingredient)
    /\ ~HasTermOf(BENEFICIAL_INGREDIENTS, ingredient)

Occurrences(x, list) == Cardinality({n \in 1..Len(list) : list[n] = x})

\* C13: classify_ingredients puts every ingredient in the list of the first
\* set, in the order harmful, ultra-processed, beneficial, of which its
\* lower-cased form contains a term, and in other when it contains none; each
\* list is the input's elements of that category in input order, so the four
\* lists hold each element as often as the input does, and an ingredient
\* with an ultra-processed and a beneficial term is in the former only.
C13_FirstMatchWins ==
    \A k \in 1..Len(classified) :
        LET ingredients == classified[k].ingredients
            out == classified[k].out
        IN  /\ out.harmful_additives = SelectSeq(ingredients, IsHarmful)
            /\ out.ultra_processed_markers = SelectSeq(ingredients, IsProcessed)
            /\ out.beneficial_ingredients = SelectSeq(ingredients, IsBeneficial)
            /\ out.other = SelectSeq(ingredients, IsOther)
            /\ \A n \in 1..Len(ingredients) :
                   Occurrences(ingredients[n], out.harmful_additives)
                     + Occurrences(ingredients[n], out.ultra_processed_markers)
                     + Occurrences(ingredients[n], out.beneficial_ingredients)
                     + Occurrences(ingredients[n], out.other)
                   = Occurrences(ingredients[n], ingredients)
            /\ \A n \in 1..Len(out.beneficial_ingredients) :
                   out.beneficial_ingredients[n] # hydrolyzed_protein

\* 'hydrolyzed protein' was classified twice, with a beneficial ingredient
\* between its two occurrences
C13_Witness ==
    \E k \in 1..Len(classified) :
        /\ Len(classified[k].ingredients) = 3
        /\ classified[k].out.ultra_processed_markers = <<hydrolyzed_protein, hydrolyzed_protein>>
        /\ Len(classified[k].out.beneficial_ingredients) = 1
        /\ classified[k].ingredients[2] = classified[k].out.beneficial_ingredients[1]

\* the normalize_nutrients calls made
Panels == 1..Len(panels)

\* the first decimal number of each raw value that has one, in thousandths
FirstNumber ==
    <<"3","0","0","m","g">> :> 300000 @@ <<"2","0","0","0"," ","M","G">> :> 2000000 @@ <<"1",".","5","g">> :> 1500 @@
    <<"8">> :> 8000 @@ <<"2","5","0","k","c","a","l">> :> 250000 @@ <<"9","0"," ","c","a","l">> :> 90000

\* the raw values given in milligrams
InMilligrams == {<<"3","0","0","m","g">>, <<"2","0","0","0"," ","M","G">>}

\* the raw item whose key is the name of a returned entry
ItemNamed(k, name) ==
    CHOOSE i \in 1..Len(panels[k].raw_nutrients) : panels[k].raw_nutrients[i][1] = name

\* the output key of a raw key
OutputKey(key) == Replace(Lower(key))

RescaledFrom(per_100g, v, serving) ==
    IF serving > 0 THEN per_100g * serving = v * 100 ELSE per_100g = v

\* C15: an entry given in mg under a key other than sodium and cholesterol is
\* returned with unit g and the rescaled value divided by 1000 (total_fat
\* 2000 mg at serving 50: 4 g); sodium and cholesterol given in mg keep unit
\* mg and the rescaled value (sodium 300 mg at serving 50: 600 mg); no
\* returned entry but sodium and cholesterol has unit mg.
C15_MilligramsHarmonized ==
    \A k \in Panels :
        LET raw == panels[k].raw_nutrients
            serving == panels[k].serving_size_g
            out == panels[k].out.value
        IN  \A key \in DOMAIN out :
                LET item == raw[ItemNamed(k, out[key].name)]
                    v == FirstNumber[item[2]]
                IN  /\ (item[2] \in InMilligrams /\ key \notin {sodium, cholesterol}) =>
                           /\ out[key].unit = "g"
                           /\ RescaledFrom(out[key].per_100g * 1000, v, serving)
                    /\ (item[2] \in InMilligrams /\ key \in {sodium, cholesterol}) =>
                           /\ out[key].unit = "mg"
                           /\ RescaledFrom(out[key].per_100g, v, serving)
                    /\ out[key].unit = "mg" => key \in {sodium, cholesterol}
                    /\ (key = total_fat /\ v = 2000000 /\ serving = 50) =>
                           out[key].per_100g = 4000 /\ out[key].unit = "g"
                    /\ (key = sodium /\ v = 300000 /\ serving = 50) =>
                           out[key].per_100g = 600000 /\ out[key].unit = "mg"

\* one call at serving 50 returned total_fat 4 g from 2000 mg and sodium
\* 600 mg from 300 mg
C15_Witness ==
    \E k \in Panels :
        /\ panels[k].serving_size_g = 50
        /\ DOMAIN panels[k].out.value = {total_fat, sodium}
        /\ panels[k].out.value[total_fat].value = 2000000
        /\ panels[k].out.value[total_fat].per_100g = 4000
        /\ panels[k].out.value[total_fat].unit = "g"
        /\ panels[k].out.value[sodium].value = 300000
        /\ panels[k].out.value[sodium].per_100g = 600000
        /\ panels[k].out.value[sodium].unit = "mg"

\* the unit token of each raw value that has a number: the one written, g
\* when none is
TokenOf ==
    <<"3","0","0","m","g">> :> "mg" @@ <<"2","0","0","0"," ","M","G">> :> "mg" @@ <<"1",".","5","g">> :> "g" @@
    <<"8">> :> "g" @@ <<"2","5","0","k","c","a","l">> :> "kcal" @@ <<"9","0"," ","c","a","l">> :> "cal"

\* C16 as claimed: every NutrientInfo normalize_nutrients returns has unit g,
\* mg or kcal, whatever unit token the raw value carries.
C16_UnitEnum ==
    \A k \in Panels :
        \A key \in DOMAIN panels[k].out.value :
            panels[k].out.value[key].unit \in {"g", "mg", "kcal"}

\* C16: every NutrientInfo normalize_nutrients returns has unit g, mg, kcal
\* or cal: the unit is the token of the raw value as written (cal stays
\* cal), g when there is none, and g for a milligram value that was
\* converted.
C16_UnitTokens ==
    \A k \in Panels :
        \A key \in DOMAIN panels[k].out.value :
            LET info == panels[k].out.value[key]
                item == panels[k].raw_nutrients[ItemNamed(k, info.name)]
            IN  /\ info.unit \in {"g", "mg", "kcal", "cal"}
                /\ info.unit = IF TokenOf[item[2]] = "mg" /\ key \notin {sodium, cholesterol}
                               THEN "g" ELSE TokenOf[item[2]]

\* a value given in cal was returned with unit cal
C16_Witness ==
    \E k \in Panels :
        \E key \in DOMAIN panels[k].out.value :
            /\ panels[k].out.value[key].unit = "cal"
            /\ panels[k].out.value[key].value = 90000

\* the raw values written in grams
InGrams == {<<"1",".","5","g">>}

\* C17 as claimed: in every map normalize_nutrients returns, the sodium entry
\* and the cholesterol entry have unit mg and a per_100g in milligrams,
\* whether the raw value was written in mg, in g or without a unit.
C17_SodiumInMilligrams ==
    \A k \in Panels :
        \A key \in DOMAIN panels[k].out.value \cap {sodium, cholesterol} :
            LET info == panels[k].out.value[key]
                item == panels[k].raw_nutrients[ItemNamed(k, info.name)]
            IN  /\ info.unit = "mg"
                /\ item[2] \in InGrams =>
                       RescaledFrom(info.per_100g, 1000 * FirstNumber[item[2]],
                                    panels[k].serving_size_g)

\* each raw key lower-cased, with '_' for ' '
KeyTable ==
    sodium :> sodium @@ <<"S","o","d","i","u","m">> :> sodium @@ cholesterol :> cholesterol @@
    <<"T","o","t","a","l"," ","F","a","t">> :> total_fat @@ total_fat :> total_fat

HasNumber(item) == item[2] \in DOMAIN FirstNumber

\* C18: a raw entry whose string has no digit gives no output entry and
\* raises nothing; the call returns what it returns for the same items
\* without the unparsable ones; every output key is its entry's raw key
\* lower-cased with '_' for each space.
C18_MissesSkipped ==
    \A k \in Panels :
        LET raw == panels[k].raw_nutrients
            out == panels[k].out
        IN  /\ out.raised = ""
            /\ \A i \in 1..Len(raw) :
                   ~HasNumber(raw[i]) =>
                       \A key \in DOMAIN out.value : out.value[key].name # raw[i][1]
            /\ out = normalize_nutrients(SelectSeq(raw, HasNumber), panels[k].serving_size_g)
            /\ DOMAIN out.value = {KeyTable[raw[i][1]] : i \in {j \in 1..Len(raw) : HasNumber(raw[j])}}
            /\ \A key \in DOMAIN out.value : key = KeyTable[out.value[key].name]

\* a call with an unparsable entry ahead of 'Total Fat' returned total_fat alone
C18_Witness ==
    \E k \in Panels :
        /\ Len(panels[k].raw_nutrients) = 2
        /\ ~HasNumber(panels[k].raw_nutrients[1])
        /\ panels[k].raw_nutrients[1][2] # None
        /\ panels[k].raw_nutrients[2][1] = <<"T","o","t","a","l"," ","F","a","t">>
        /\ DOMAIN panels[k].out.value = {total_fat}
        /\ panels[k].out.raised = ""

\* the points of the documented confidence scheme for a product
Points(product) ==
    (IF DOMAIN product.nutrients # {} THEN 50 ELSE 0)
  + (IF product.ingredients # <<>> THEN 30 ELSE 0)
  + (IF product.barcode \notin {None, <<>>} THEN 10 ELSE 0)
  + (IF product.brand # <<>> THEN 10 ELSE 0)

\* C19: the confidence score_product returns is high iff the product's
\* points are at least 80, medium iff they are 60 to 79 and low otherwise,
\* with 50 points for a non-empty nutrient map, 30 for a non-empty
\* ingredient list, 10 for a non-empty barcode and 10 for a non-empty brand;
\* it is the same whichever rules fired.
C19_ConfidencePoints ==
    \A i \in Calls :
        LET points == Points(calls[i].product)
        IN  /\ calls[i].value.confidence \in {"high", "medium", "low"}
            /\ calls[i].value.confidence = "high" <=> points >= 80
            /\ calls[i].value.confidence = "medium" <=> (60 <= points /\ points < 80)
            /\ calls[i].value.confidence = "low" <=> points < 60

\* a product with nutrients and a barcode, no ingredients and no brand, on
\* which no rule fired, got confidence medium
C19_Witness ==
    \E i \in Calls :
        /\ DOMAIN calls[i].product.nutrients # {}
        /\ calls[i].product.ingredients = <<>>
        /\ calls[i].product.barcode = <<"8","9">>
        /\ calls[i].product.brand = <<>>
        /\ calls[i].value.drivers = <<>>
        /\ calls[i].value.confidence = "medium"

\* The rule table, per key: the quantity the rate applies to for per_100g v
\* (thousandths), the rate as a fraction, the cap in points and the sign.
RuleRow(k, v) ==
    IF k = dietary_fiber THEN [amount |-> v, num |-> 3, den |-> 2, cap |-> 10, sign |-> 1]
    ELSE IF k = protein THEN [amount |-> v, num |-> 3, den |-> 10, cap |-> 8, sign |-> 1]
    ELSE IF k = sodium THEN [amount |-> v * 10 - 600000, num |-> 1, den |-> 100, cap |-> 15, sign |-> -1]
    ELSE IF k = saturated_fat THEN [amount |-> v, num |-> 3, den |-> 2, cap |-> 12, sign |-> -1]
    ELSE [amount |-> v, num |-> 1, den |-> 2, cap |-> 10, sign |-> -1]

\* the delta of the table's rule on key k, in thousandths: the rate times
\* the amount, capped
TableDelta(k, v) ==
    LET row == RuleRow(k, v)
    IN  row.sign * (IF row.amount * row.num >= row.cap * 1000 * row.den
                    THEN row.cap * 1000
                    ELSE (row.amount * row.num) \div row.den)

\* the keys whose rule the table fires on a nutrient map
Firing(nutrients) ==
    {k \in DOMAIN nutrients \cap {NutrientKeys[n] : n \in 1..Len(NutrientKeys)} :
        OverThreshold(k, nutrients[k].per_100g)}

RECURSIVE TableSum(_, _)
TableSum(nutrients, keys) ==
    IF keys = {} THEN 0
    ELSE LET k == CHOOSE x \in keys : TRUE
         IN  TableDelta(k, nutrients[k].per_100g) + TableSum(nutrients, keys \ {k})

DriversOf(i, factor) ==
    {n \in 1..Len(calls[i].value.drivers) : calls[i].value.drivers[n].factor = factor}

Magnitude(x) == IF x < 0 THEN -x ELSE x

HarmfulCount(ingredients) == Len(SelectSeq(ingredients, IsHarmful))

ProcessedCount(ingredients) == Len(SelectSeq(ingredients, IsProcessed))

BeneficialCount(ingredients) == Len(SelectSeq(ingredients, IsBeneficial))

\* the ingredient rule table on the three counts, in thousandths
HarmfulDelta(count) == IF count > 0 THEN -1000 * (IF 5 * count > 15 THEN 15 ELSE 5 * count) ELSE 0

ProcessedDelta(count) == IF count > 3 THEN -1000 * (IF 2 * count > 8 THEN 8 ELSE 2 * count) ELSE 0

BeneficialDelta(count) == IF count > 0 THEN 1000 * (IF 3 * count > 10 THEN 10 ELSE 3 * count) ELSE 0

\* the drivers of a call with a factor all have delta d, and there is one
\* iff the rule fires
DriverIs(i, factor, fires, d) ==
    /\ Cardinality(DriversOf(i, factor)) = IF fires THEN 1 ELSE 0
    /\ \A n \in DriversOf(i, factor) : calls[i].value.drivers[n].score_delta = d

\* C21: the ingredient rules are the table's, on the category counts: a
\* harmful count > 0 subtracts min(15, 5 * count), an ultra-processed count
\* > 3 subtracts min(8, 2 * count) and a count of 1 to 3 nothing, a
\* beneficial count > 0 adds min(10, 3 * count), ingredients of no category
\* nothing; each driver carries its rule's delta and the deltas add up in
\* the score.
C21_IngredientRuleTable ==
    \A i \in Calls :
        LET ingredients == calls[i].product.ingredients
            h == HarmfulCount(ingredients)
            u == ProcessedCount(ingredients)
            b == BeneficialCount(ingredients)
        IN  /\ DriverIs(i, "Harmful Additives Present", h > 0, HarmfulDelta(h))
            /\ DriverIs(i, "Highly Processed Food", u > 3, ProcessedDelta(u))
            /\ DriverIs(i, "Beneficial Ingredients", b > 0, BeneficialDelta(b))
            /\ DOMAIN calls[i].product.nutrients = {} =>
                   /\ DeltaSum(calls[i].value.drivers)
                          = HarmfulDelta(h) + ProcessedDelta(u) + BeneficialDelta(b)
                   /\ calls[i].value.overall_score
                          = Bounded(WholePart(50000 + HarmfulDelta(h) + ProcessedDelta(u)
                                                    + BeneficialDelta(b)))

\* three ultra-processed markers and one harmful additive: the additive
\* driver alone, 45 points
C21_Witness ==
    \E i \in Calls :
        /\ ProcessedCount(calls[i].product.ingredients) = 3
        /\ HarmfulCount(calls[i].product.ingredients) = 1
        /\ Factors(i) = {"Harmful Additives Present"}
        /\ calls[i].value.overall_score = 45

\* the factor labels in the order the rules are evaluated
RuleOrder ==
    << "High Fiber Content", "Good Protein Source", "High Sodium Content",
       "High Saturated Fat", "High Sugar Content",
       "Harmful Additives Present", "Highly Processed Food", "Beneficial Ingredients" >>

Rank(factor) == CHOOSE n \in 1..Len(RuleOrder) : RuleOrder[n] = factor

\* C22: in every returned HealthScore no factor label appears twice, so
\* there are at most 8 drivers, and the drivers are in rule order: nutrient
\* drivers (fiber, protein, sodium, saturated fat, sugars) before ingredient
\* drivers (harmful additives, ultra-processed, beneficial).
C22_DriverOrder ==
    \A i \in Calls :
        LET drivers == calls[i].value.drivers
        IN  /\ Len(drivers) <= 8
            /\ \A n \in 1..Len(drivers) :
                   \E r \in 1..Len(RuleOrder) : RuleOrder[r] = drivers[n].factor
            /\ \A n, m \in 1..Len(drivers) :
                   n < m => Rank(drivers[n].factor) < Rank(drivers[m].factor)

\* a call returned all eight drivers
C22_Witness ==
    \E i \in Calls :
        /\ Len(calls[i].value.drivers) = 8
        /\ calls[i].value.drivers[1].factor = "High Fiber Content"
        /\ calls[i].value.drivers[6].factor = "Harmful Additives Present"
        /\ calls[i].value.drivers[8].factor = "Beneficial Ingredients"

SodiumWarning == "High sodium content may contribute to elevated blood pressure"

AdditiveWarning ==
    "Contains additives that some studies suggest may have negative health effects"

\* a call returned a driver with a factor, negative in impact and delta
NegativeDriver(i, factor) ==
    \E n \in DriversOf(i, factor) :
        /\ calls[i].value.drivers[n].impact = "negative"
        /\ calls[i].value.drivers[n].score_delta < 0

\* C23: warnings holds the sodium warning iff the sodium rule fired and the
\* additive warning iff the harmful-additives rule fired, the sodium warning
\* first, and nothing else: at most 2 entries, each next to a negative
\* driver of its rule.
C23_Warnings ==
    \A i \in Calls :
        LET nutrients == calls[i].product.nutrients
            salty == sodium \in DOMAIN nutrients /\ OverThreshold(sodium, nutrients[sodium].per_100g)
            additives == HarmfulCount(calls[i].product.ingredients) > 0
            warnings == calls[i].value.warnings
        IN  /\ warnings = (IF salty THEN <<SodiumWarning>> ELSE <<>>)
                          \o (IF additives THEN <<AdditiveWarning>> ELSE <<>>)
            /\ Len(warnings) <= 2
            /\ salty <=> "High Sodium Content" \in Factors(i)
            /\ additives <=> "Harmful Additives Present" \in Factors(i)
            /\ salty => NegativeDriver(i, "High Sodium Content")
            /\ additives => NegativeDriver(i, "Harmful Additives Present")

\* all eight rules fired and the two warnings came back, sodium first
C23_Witness ==
    \E i \in Calls :
        /\ Len(calls[i].value.drivers) = 8
        /\ calls[i].value.warnings = <<SodiumWarning, AdditiveWarning>>

\* the HealthScore a call on a product returns when it runs alone
Alone(self, product, ord) ==
    LET r == score_product(self, product, ord)
    IN  Deref(r.heap, r.returned)

\* C24: with the steps of several threads' score_product calls on one
\* scorer interleaved in any order, every call returns the HealthScore the
\* same call returns when it runs alone, leaves its product as it was, and
\* the scorer's list of sources stays the six sources.
C24_ThreadSafe ==
    /\ \A i \in Calls :
           /\ \A ord \in IterOrders :
                  calls[i].value = Alone(calls[i].self, calls[i].product, ord)
           /\ calls[i].after = calls[i].product
    /\ \A s \in Scorers : heap[scorers[s]] = SOURCES

\* two calls on different products returned different scores, the first
\* one returning while the other thread was inside its call
C24_Witness ==
    /\ Len(calls) = 2
    /\ calls[1].overlap # {}
    /\ calls[1].product # calls[2].product
    /\ calls[1].value.drivers # <<>>
    /\ calls[2].value.drivers # <<>>
    /\ calls[1].value.overall_score # calls[2].value.overall_score

Saves == 1..Len(saved)

\* the last save of the product that save i saved
LastSaveOf(i) ==
    CHOOSE j \in Saves :
        /\ saved[j].product = saved[i].product
        /\ \A m \in Saves : saved[m].product = saved[i].product => m <= j

\* C25: after any sequence of save_product calls the products table has one
\* row per distinct product saved: two saves return the same hash iff their
\* products are equal, whatever the scores and the times, and the row with
\* that hash holds the product and the score passed to the latest save of it.
C25_OneRowPerProduct ==
    /\ \A i, j \in Saves :
           saved[i].returned = saved[j].returned <=> saved[i].product = saved[j].product
    /\ Cardinality(table) = Cardinality({saved[i].product : i \in Saves})
    /\ \A i \in Saves :
           LET rows == {r \in table : r.data_hash = saved[i].returned}
           IN  /\ Cardinality(rows) = 1
               /\ \A r \in rows :
                      /\ LoadProduct(JsonLoads(r.product_data)) = saved[i].product
                      /\ LoadScore(JsonLoads(r.health_score)) = saved[LastSaveOf(i)].score
                      /\ r.barcode = saved[i].product.barcode

\* a product was saved, another one after it, and the first again with
\* another score: two rows
C25_Witness ==
    /\ Len(saved) = 3
    /\ saved[1].product = saved[3].product
    /\ saved[1].product # saved[2].product
    /\ saved[1].score # saved[3].score
    /\ Cardinality(table) = 2

\* the saves of a product with the given barcode
SavesUnder(barcode) == {i \in Saves : saved[i].product.barcode = barcode}

\* the latest of a non-empty set of saves
LastOf(S) == CHOOSE i \in S : \A j \in S : j <= i

\* C26: after any sequence of save_product calls, get_product_by_barcode(b)
\* returns None iff no save was of a product with barcode b, and otherwise
\* the pair of the product and the score passed to the latest save under b,
\* as ProductData with NutrientInfo values and HealthScore with ScoreDriver
\* elements.
C26_LatestUnderBarcode ==
    \A n \in DOMAIN fetched :
        LET S == SavesUnder(fetched[n].barcode)
        IN  /\ fetched[n].out = None <=> S = {}
            /\ S # {} => fetched[n].out = <<saved[LastOf(S)].product, saved[LastOf(S)].score>>

\* two products of different content were saved under one barcode, the
\* first of them again at the end, and the lookup returned it with its
\* nutrients and drivers
C26_Witness ==
    /\ Len(saved) = 3
    /\ Len(fetched) = 1
    /\ saved[1].product.barcode = fetched[1].barcode
    /\ saved[2].product.barcode = fetched[1].barcode
    /\ saved[1].product # saved[2].product
    /\ saved[3].product = saved[1].product
    /\ fetched[1].out # None
    /\ DOMAIN fetched[1].out[1].nutrients # {}
    /\ fetched[1].out[2].drivers # <<>>

\* the sodium penalty in thousandths of a point for a sodium per 100 g in
\* thousandths of a milligram: 0.01 per mg above 600 mg, at most 15
SodiumPenalty(per_100g) ==
    IF per_100g > Milli(600) THEN Min(Milli(15), (per_100g - Milli(600)) \div 100) ELSE 0

\* C27 as claimed: for a product whose sodium entry normalize_nutrients
\* produced in milligrams, the sodium rule subtracts 0.01 points per
\* milligram of per_100g above 600 mg, at most 15, and nothing at or below
\* 600 mg.
C27_SodiumPenalty ==
    \A i \in Calls :
        \A k \in Panels :
            LET info == panels[k].out.value[sodium]
                penalty == SodiumPenalty(info.per_100g)
                fired == {n \in DOMAIN calls[i].value.drivers :
                             calls[i].value.drivers[n].factor = "High Sodium Content"}
            IN  (info.unit = "mg" /\ calls[i].product.nutrients = panels[k].out.value) =>
                    /\ fired # {} <=> penalty > 0
                    /\ \A n \in fired : calls[i].value.drivers[n].score_delta = -penalty
                    /\ calls[i].value.overall_score = PyInt(Milli(50) - penalty)

\* the nutrient key a nutrient rule's factor label stands for
FactorKey ==
    "High Fiber Content" :> dietary_fiber @@ "Good Protein Source" :> protein @@
    "High Sodium Content" :> sodium @@ "High Saturated Fat" :> saturated_fat @@
    "High Sugar Content" :> total_sugars

\* the number an explanation shows for a quantity in thousandths: one
\* decimal for the nutrients in grams (in tenths), none for sodium
Shown(key, quantity) ==
    IF key = sodium THEN FormatFixed(quantity, 1000) ELSE FormatFixed(quantity, 100)

\* C28 as claimed: the number in a nutrient driver's explanation is the
\* product's per_100g of that nutrient, in the nutrient's unit (for the
\* sodium driver the stored sodium per_100g), and the number in an
\* ingredient driver's explanation is the count of the ingredients of its
\* category.
C28_CitedQuantity ==
    \A i \in Calls :
        \A n \in DOMAIN calls[i].value.drivers :
            LET d == calls[i].value.drivers[n]
                product == calls[i].product
            IN  /\ d.factor \in DOMAIN FactorKey =>
                       d.explanation.number
                           = Shown(FactorKey[d.factor], product.nutrients[FactorKey[d.factor]].per_100g)
                /\ d.factor = "Harmful Additives Present" =>
                       d.explanation.number = HarmfulCount(product.ingredients)
                /\ d.factor = "Highly Processed Food" =>
                       d.explanation.number = ProcessedCount(product.ingredients)
                /\ d.factor = "Beneficial Ingredients" =>
                       d.explanation.number = BeneficialCount(product.ingredients)

Lookups == 1..Len(lookups)

\* C29 as claimed: in a product the form builds from a response, every
\* nutriment of the response has its entry, and the entry's per_100g is the
\* per-100g figure of the response, whatever the serving size.
C29_Per100gAsReported ==
    \A k \in Lookups :
        (Len(lookups[k].out) = 1 /\ lookups[k].resp.status = 1) =>
            LET nutriments == lookups[k].resp.product.nutriments
                product == lookups[k].out[1]
            IN  \A i \in 1..Len(Nutriments) :
                    Nutriments[i][1] \in DOMAIN nutriments =>
                        /\ Nutriments[i][2] \in DOMAIN product.nutrients
                        /\ product.nutrients[Nutriments[i][2]].per_100g
                               = nutriments[Nutriments[i][1]]

\* the deltas of the positive drivers of a call, by factor
BonusCaps ==
    "High Fiber Content" :> 10000 @@ "Good Protein Source" :> 8000 @@
    "Beneficial Ingredients" :> 10000

\* C30: every call returns an overall_score of at most 78 and a band other
\* than A: the only positive drivers are fiber (at most +10), protein (at
\* most +8) and beneficial ingredients (at most +10), so 50 plus the deltas
\* never exceeds 78 and the clamp at 100 changes nothing; a negative total
\* is clamped to 0.
C30_AtMost78 ==
    \A i \in Calls :
        LET drivers == calls[i].value.drivers
        IN  /\ calls[i].value.overall_score <= 78
            /\ calls[i].value.band # "A"
            /\ \A n \in DOMAIN drivers :
                   drivers[n].score_delta > 0 =>
                       /\ drivers[n].factor \in DOMAIN BonusCaps
                       /\ drivers[n].score_delta <= BonusCaps[drivers[n].factor]
            /\ Total(i) <= 78000
            /\ calls[i].value.overall_score = IF Total(i) < 0 THEN 0 ELSE PyInt(Total(i))

\* one call returned 78 with the three bonuses at their caps and no
\* penalty, another returned 0 with the five penalties at their caps, a
\* total of -10
C30_Witness ==
    \E i, j \in Calls :
        /\ calls[i].value.overall_score = 78
        /\ Factors(i) = DOMAIN BonusCaps
        /\ calls[j].value.overall_score = 0
        /\ Total(j) = -10000
        /\ Len(calls[j].value.drivers) = 5

====
